---------------------------- MODULE Spec2Model ----------------------------
(***************************************************************************)
(* Model of the lally-ui registry toolchain (packages/ui/src/registry):    *)
(* the import rewriter, the alias resolver, the file materializer, the     *)
(* registry catalog and the `add` command built from them.                 *)
(*                                                                         *)
(* Text is a sequence of one-character strings, so that startsWith, slice, *)
(* replaceAll and the regular expression of applyImportReplacements are    *)
(* computed character by character as the JavaScript does.                 *)
(***************************************************************************)
EXTENDS Integers, Sequences, FiniteSets, TLC

VARIABLES
    rwContent,   \* applyImportReplacements: argument `content`
    rwMapping,   \* applyImportReplacements: argument `replaceImports`
    rwResult,    \* applyImportReplacements: returned text
    rwPc,        \* "ready" before the call, "done" after it returned
    config,      \* components.json of the working directory
    raResult,    \* readAliasContext: what the call produced
    raPc,        \* "ready" before the call, "done" after it settled
    files,       \* the file system: resolved path -> content of the file there
    dirs,        \* the file system: the resolved paths that are directories
    fs0,         \* the file system as it was at Init: [files, dirs]
    wim,         \* writeIfMissing: per caller, the call in progress
    wimLog,      \* writeIfMissing: the calls that returned, in order
    items,       \* registry.ts: the module-level array `items`
    catLog,      \* the calls of listRegistryItems / findRegistryItem, in order
    templates,   \* the template root: source path -> content, if the file is there
    run,         \* the `add` or `registry connect` command in progress, or the last one run
    runs,        \* number of `add` and `registry connect` commands started
    edits,       \* number of changes the consumer made to the project
    ft,          \* a call of fileTypeForTarget, or of slugForItem and titleCase:
                 \* [pc, segs, target, result]
    exp,         \* the `registry export` command in progress, or the last one run
    outFs        \* the export's outDir: [dir, files], files: name -> document

rwVars == <<rwContent, rwMapping, rwResult, rwPc>>
raVars == <<raResult, raPc>>
fsVars == <<files, dirs, fs0>>
wimVars == <<wim, wimLog>>
catVars == <<items, catLog>>
addVars == <<templates, run, runs, edits>>
expVars == <<exp, outFs>>
vars == <<rwContent, rwMapping, rwResult, rwPc, config, raResult, raPc,
          files, dirs, fs0, wim, wimLog, items, catLog,
          templates, run, runs, edits, ft, exp, outFs>>

\* what a step of each component leaves alone, besides its own variables
RwFrame == <<config, raVars, fsVars, wimVars, catVars, addVars, ft, expVars>>
RaFrame == <<rwVars, fsVars, wimVars, catVars, addVars, ft, expVars>>
WimFrame == <<rwVars, raVars, config, catVars, addVars, ft, expVars>>
CatFrame == <<rwVars, raVars, config, fsVars, wimVars, addVars, ft, expVars>>
AddFrame == <<rwVars, raVars, wimVars, catLog, fs0, ft>>
FtFrame == <<rwVars, raVars, config, fsVars, wimVars, catVars, addVars, expVars>>

(***************************************************************************)
(* Bounds of the model.                                                    *)
(***************************************************************************)
\* number of source lines concatenated into a rewriter input
MaxSegs == 2
\* number of writeIfMissing calls in a behaviour of the materializer
MaxCalls == 3
\* number of calls of the catalog's interface in a behaviour
MaxCatCalls == 3
\* number of commands (`add`, `registry export`) run one after the other
MaxRuns == 2
\* number of changes the consumer makes to the project between commands
MaxEdits == 1
\* number of template sources missing from the template root
MaxMissing == 1
\* number of segments of a target path given to fileTypeForTarget
MaxDepth == 3
\* number of `registry export` commands run
MaxExports == 2
\* longest list of options given to `registry connect`
MaxArgs == 2
\* number of words of an id given to slugForItem and titleCase
MaxWords == 3

(***************************************************************************)
(* Text literals of the repository.                                        *)
(***************************************************************************)
\* '../../../lib/cn'
KeyCn ==
    <<".",".","/",".",".","/",".",".","/","l","i","b","/","c","n">>
\* '../../../components/shared/package-manager-tabs'
KeyTabs ==
    <<".",".","/",".",".","/",".",".","/","c","o","m","p","o","n","e","n","t","s","/","s","h","a","r","e","d","/","p","a","c","k","a","g","e","-","m","a","n","a","g","e","r","-","t","a","b","s">>
\* '@/components/ui/combobox'
KeyCombobox ==
    <<"@","/","c","o","m","p","o","n","e","n","t","s","/","u","i","/","c","o","m","b","o","b","o","x">>
\* '{utilsAlias}'
ToUtils ==
    <<"{","u","t","i","l","s","A","l","i","a","s","}">>
\* '{componentsAlias}/mdx/package-manager-tabs'
ToTabs ==
    <<"{","c","o","m","p","o","n","e","n","t","s","A","l","i","a","s","}","/","m","d","x","/","p","a","c","k","a","g","e","-","m","a","n","a","g","e","r","-","t","a","b","s">>
\* '{uiAlias}/combobox'
ToCombobox ==
    <<"{","u","i","A","l","i","a","s","}","/","c","o","m","b","o","b","o","x">>
\* '@/components'
DefaultComponentsAlias ==
    <<"@","/","c","o","m","p","o","n","e","n","t","s">>
\* '@/components/ui'
DefaultUiAlias ==
    <<"@","/","c","o","m","p","o","n","e","n","t","s","/","u","i">>
\* '@/lib/utils'
DefaultUtilsAlias ==
    <<"@","/","l","i","b","/","u","t","i","l","s">>
\* 'from ' : the literal head of the regular expression and of the replacement
FromKw ==
    <<"f","r","o","m"," ">>
\* the characters of the class ['"]
QuoteChars == {"'", "\""}

(***************************************************************************)
(* Strings.                                                                *)
(***************************************************************************)
\* String.prototype.startsWith
StartsWith(s, p) ==
    /\ Len(s) >= Len(p)
    /\ SubSeq(s, 1, Len(p)) = p

\* s.slice(n): the text after the first n characters
Slice(s, n) == SubSeq(s, n + 1, Len(s))

\* whether the literal text p occurs in s at (1-based) position i
OccursAt(s, p, i) ==
    /\ i + Len(p) - 1 <= Len(s)
    /\ SubSeq(s, i, i + Len(p) - 1) = p

\* String.prototype.includes
Includes(s, p) == \E i \in 1..(Len(s) + 1) : OccursAt(s, p, i)

(***************************************************************************)
(* The regular expression new RegExp(`from ['\"]${from}['\"]`, "g").       *)
(* The key is pasted into the pattern source unescaped, so each of its     *)
(* characters is a pattern atom: "." is the wildcard (any character but a  *)
(* line terminator), every other character of the keys used here stands    *)
(* for itself.  Keys holding other metacharacters ( \ ^ $ * + ? ( ) [ ] {  *)
(* } | ) are not drawn by this model; no key of the catalog has one.       *)
(***************************************************************************)
LitAtom(c) == [kind |-> "lit", ch |-> c]
AnyAtom == [kind |-> "any", ch |-> "."]
QuoteAtom == [kind |-> "class", ch |-> "'"]

\* the atom the regular-expression compiler makes of one character of the
\* (unescaped) key
KeyAtom(c) == IF c = "." THEN AnyAtom ELSE LitAtom(c)

\* the atom of an escaped key character: always the character itself
EscapedKeyAtom(c) == LitAtom(c)

ImportPattern(from) ==
    [i \in 1..Len(FromKw) |-> LitAtom(FromKw[i])]
        \o <<QuoteAtom>>
        \o [i \in 1..Len(from) |-> KeyAtom(from[i])]
        \o <<QuoteAtom>>

AtomMatches(a, c) ==
    CASE a.kind = "lit" -> c = a.ch
      [] a.kind = "any" -> c \notin {"\n", "\r"}
      [] a.kind = "class" -> c \in QuoteChars

\* whether the pattern matches the text starting at position i
MatchAt(text, atoms, i) ==
    /\ i + Len(atoms) - 1 <= Len(text)
    /\ \A k \in 1..Len(atoms) : AtomMatches(atoms[k], text[i + k - 1])

\* the positions >= i at which the pattern matches the text
MatchesFrom(text, atoms, i) ==
    {j \in i..Len(text) : MatchAt(text, atoms, j)}

\* GetSubstitution of a replacement string, for a match of length len at
\* position pos of text and a pattern without capture groups: "$$" stands for
\* "$", "$&" for the match, "$`" for the text before it, "$'" for the text
\* after it; any other "$" stands for itself
RECURSIVE GetSubstitution(_, _, _, _)
GetSubstitution(rep, text, pos, len) ==
    LET special == {k \in 1..(Len(rep) - 1) :
                      rep[k] = "$" /\ rep[k + 1] \in {"$", "&", "`", "'"}}
    IN  IF special = {} THEN rep
        ELSE LET k == CHOOSE m \in special : \A n \in special : m <= n
                 sub == CASE rep[k + 1] = "$" -> <<"$">>
                          [] rep[k + 1] = "&" -> SubSeq(text, pos, pos + len - 1)
                          [] rep[k + 1] = "`" -> SubSeq(text, 1, pos - 1)
                          [] rep[k + 1] = "'" -> SubSeq(text, pos + len, Len(text))
             IN  SubSeq(rep, 1, k - 1) \o sub
                     \o GetSubstitution(SubSeq(rep, k + 2, Len(rep)), text, pos, len)

\* text.replace(<global regex>, rep) from position i on: leftmost matches,
\* not overlapping, each replaced by the substitution of rep
RECURSIVE ReplaceFrom(_, _, _, _)
ReplaceFrom(text, atoms, rep, i) ==
    LET found == MatchesFrom(text, atoms, i) IN
    IF found = {} THEN SubSeq(text, i, Len(text))
    ELSE LET j == CHOOSE m \in found : \A n \in found : m <= n IN
         SubSeq(text, i, j - 1) \o GetSubstitution(rep, text, j, Len(atoms))
             \o ReplaceFrom(text, atoms, rep, j + Len(atoms))

RegexReplaceAll(text, atoms, rep) == ReplaceFrom(text, atoms, rep, 1)

\* mutant: the replacement is written with double quotes
ImportReplacementDoubleQuoted(to) == FromKw \o <<"\"">> \o to \o <<"\"">>

\* `from '${to}'`
ImportReplacement(to) == FromKw \o <<"'">> \o to \o <<"'">>

(***************************************************************************)
(* applyImportReplacements (helpers.ts).  replaceImports is                *)
(* [defined, entries]: defined = FALSE is `undefined`; entries is          *)
(* Object.entries(replaceImports), in insertion order.                     *)
(***************************************************************************)
NoMapping == [defined |-> FALSE, entries |-> <<>>]
MappingOf(entries) == [defined |-> TRUE, entries |-> entries]
Entry(from, to) == [from |-> from, to |-> to]

\* the loop body, entries k..Len(entries) applied to the running text
RECURSIVE ApplyEntries(_, _, _)
ApplyEntries(next, entries, k) ==
    IF k > Len(entries) THEN next
    ELSE ApplyEntries(
            RegexReplaceAll(next, ImportPattern(entries[k].from),
                            ImportReplacement(entries[k].to)),
            entries, k + 1)

\* mutant: an absent or empty mapping falls back to a built-in mapping
applyImportReplacementsFallback(content, replaceImports) ==
    IF ~replaceImports.defined \/ replaceImports.entries = <<>>
    THEN ApplyEntries(content, <<Entry(KeyCn, DefaultUtilsAlias)>>, 1)
    ELSE ApplyEntries(content, replaceImports.entries, 1)

applyImportReplacements(content, replaceImports) ==
    IF ~replaceImports.defined THEN content
    ELSE ApplyEntries(content, replaceImports.entries, 1)

(***************************************************************************)
(* interpolateTargetPath (helpers.ts): the three placeholders, each        *)
(* replaced at every occurrence by the substitution of the alias value.    *)
(***************************************************************************)
\* '{componentsAlias}'
PhComponents ==
    <<"{","c","o","m","p","o","n","e","n","t","s","A","l","i","a","s","}">>
\* '{uiAlias}'
PhUi ==
    <<"{","u","i","A","l","i","a","s","}">>
\* '{utilsAlias}'
PhUtils ==
    <<"{","u","t","i","l","s","A","l","i","a","s","}">>

LiteralAtoms(pat) == [i \in 1..Len(pat) |-> LitAtom(pat[i])]

\* s.replaceAll(pat, rep) for a string pat
ReplaceAllLiteral(s, pat, rep) == RegexReplaceAll(s, LiteralAtoms(pat), rep)

interpolateTargetPath(template, aliases) ==
    ReplaceAllLiteral(
        ReplaceAllLiteral(
            ReplaceAllLiteral(template, PhComponents, aliases.componentsAlias),
            PhUi, aliases.uiAlias),
        PhUtils, aliases.utilsAlias)

\* Object.fromEntries(Object.entries(m).map(([from, to]) =>
\*     [from, interpolateTargetPath(to, aliases)])), or undefined
InterpolatedImports(replaceImports, aliases) ==
    IF ~replaceImports.defined THEN NoMapping
    ELSE MappingOf([k \in 1..Len(replaceImports.entries) |->
            Entry(replaceImports.entries[k].from,
                  interpolateTargetPath(replaceImports.entries[k].to, aliases))])

(***************************************************************************)
(* Paths.  A path string is text; a resolved path is the sequence of its   *)
(* segments from the root (each segment text), so "/" is <<>>.             *)
(***************************************************************************)
\* '/proj' : process.cwd()
CwdText ==
    <<"/","p","r","o","j">>
\* 'src'
SrcDir ==
    <<"s","r","c">>
\* '@/'
AtSlash ==
    <<"@","/">>
\* './'
DotSlash ==
    <<".","/">>
\* '../'
DotDotSlash ==
    <<".",".","/">>

\* s.split("/")
RECURSIVE Split(_)
Split(s) ==
    LET seps == {i \in 1..Len(s) : s[i] = "/"} IN
    IF seps = {} THEN <<s>>
    ELSE LET j == CHOOSE m \in seps : \A n \in seps : m <= n IN
         <<SubSeq(s, 1, j - 1)>> \o Split(SubSeq(s, j + 1, Len(s)))

\* path normalisation: segments k.. of segs applied to the resolved path acc;
\* "" and "." are dropped, ".." removes the last segment (none at the root)
RECURSIVE Normalize(_, _, _)
Normalize(acc, segs, k) ==
    IF k > Len(segs) THEN acc
    ELSE IF segs[k] = <<>> \/ segs[k] = <<".">> THEN Normalize(acc, segs, k + 1)
    ELSE IF segs[k] = <<".", ".">>
         THEN Normalize(SubSeq(acc, 1, Len(acc) - 1), segs, k + 1)
         ELSE Normalize(Append(acc, segs[k]), segs, k + 1)

\* one argument of path.resolve applied to the path resolved so far: an
\* absolute argument restarts from the root
ResolveOne(base, part) ==
    IF StartsWith(part, <<"/">>)
    THEN Normalize(<<>>, Split(part), 1)
    ELSE Normalize(base, Split(part), 1)

\* path.resolve(...parts), evaluated in a process whose cwd is base
RECURSIVE PathResolveFrom(_, _, _)
PathResolveFrom(base, parts, k) ==
    IF k > Len(parts) THEN base
    ELSE PathResolveFrom(ResolveOne(base, parts[k]), parts, k + 1)

PathResolve(parts) == PathResolveFrom(<<>>, parts, 1)

\* dirname of a resolved path
Dirname(p) == SubSeq(p, 1, Len(p) - 1)

(***************************************************************************)
(* The alias resolver (helpers.ts).  components.json is                    *)
(* [exists, hasAliases, components, ui, utils, registries]; an optional     *)
(* string is <<>>                                                          *)
(* when absent and <<text>> when present.                                  *)
(***************************************************************************)
None == <<>>
Some(x) == <<x>>

\* the field `registries` of components.json: absent, or an object from
\* registry names to URLs, its properties in the order of the text
NoRegistries == [present |-> FALSE, entries |-> <<>>]
Registries(entries) == [present |-> TRUE, entries |-> entries]
RegistryEntry(name, url) == [name |-> name, url |-> url]

\* the positions of the property `name` in an object (at most one)
PropertyAt(entries, name) == {k \in 1..Len(entries) : entries[k].name = name}

\* obj[name] = url: the property keeps its place, a new one comes last
SetProperty(entries, name, url) ==
    IF PropertyAt(entries, name) = {}
    THEN Append(entries, RegistryEntry(name, url))
    ELSE [k \in 1..Len(entries) |->
            IF entries[k].name = name THEN RegistryEntry(name, url)
            ELSE entries[k]]

NoConfigFile ==
    [exists |-> FALSE, hasAliases |-> FALSE,
     components |-> None, ui |-> None, utils |-> None,
     registries |-> NoRegistries]
ConfigNoAliases ==
    [exists |-> TRUE, hasAliases |-> FALSE,
     components |-> None, ui |-> None, utils |-> None,
     registries |-> NoRegistries]
ConfigWith(c, u, t) ==
    [exists |-> TRUE, hasAliases |-> TRUE,
     components |-> c, ui |-> u, utils |-> t,
     registries |-> NoRegistries]

\* config.aliases?.<field>
AliasField(cfg, field) == IF cfg.hasAliases THEN cfg[field] ELSE None

\* opt ?? dflt
OrElse(opt, dflt) == IF opt = None THEN dflt ELSE opt[1]

\* mutant: the first branch forgets the "src" directory
resolveAliasPathNoSrc(alias, cwd) ==
    IF StartsWith(alias, AtSlash)
    THEN PathResolve(<<cwd, Slice(alias, 2)>>)
    ELSE PathResolve(<<cwd, alias>>)

resolveAliasPath(alias, cwd) ==
    IF StartsWith(alias, AtSlash)
    THEN PathResolve(<<cwd, SrcDir, Slice(alias, 2)>>)
    ELSE IF StartsWith(alias, DotSlash) \/ StartsWith(alias, DotDotSlash)
         THEN PathResolve(<<cwd, alias>>)
         ELSE PathResolve(<<cwd, alias>>)

\* mutant: the defaults are taken together, as soon as one field is absent
ResolvedAliasesAllOrNothing(cfg) ==
    IF /\ AliasField(cfg, "components") # None
       /\ AliasField(cfg, "ui") # None
       /\ AliasField(cfg, "utils") # None
    THEN [componentsAlias |-> cfg.components[1],
          uiAlias |-> cfg.ui[1],
          utilsAlias |-> cfg.utils[1]]
    ELSE [componentsAlias |-> DefaultComponentsAlias,
          uiAlias |-> DefaultUiAlias,
          utilsAlias |-> DefaultUtilsAlias]

\* const aliases: AliasContext = {...}
ResolvedAliases(cfg) ==
    [componentsAlias |-> OrElse(AliasField(cfg, "components"), DefaultComponentsAlias),
     uiAlias |-> OrElse(AliasField(cfg, "ui"), DefaultUiAlias),
     utilsAlias |-> OrElse(AliasField(cfg, "utils"), DefaultUtilsAlias)]

NoAliases == [componentsAlias |-> <<>>, uiAlias |-> <<>>, utilsAlias |-> <<>>]

\* mutant: the existence check is missing, a missing file reads as {}
readAliasContextNoCheck(cfg, cwd) ==
    [error |-> "none",
     aliases |-> ResolvedAliases(cfg),
     componentsRoot |-> resolveAliasPath(ResolvedAliases(cfg).componentsAlias, cwd)]

\* the call's outcome: error = "missing-config" is the thrown
\* Error("Missing components.json in current directory. Run shadcn init first.")
readAliasContext(cfg, cwd) ==
    IF ~cfg.exists
    THEN [error |-> "missing-config", aliases |-> NoAliases, componentsRoot |-> <<>>]
    ELSE [error |-> "none",
          aliases |-> ResolvedAliases(cfg),
          componentsRoot |-> resolveAliasPath(ResolvedAliases(cfg).componentsAlias, cwd)]

NotCalled == [error |-> "not-called", aliases |-> NoAliases, componentsRoot |-> <<>>]

(***************************************************************************)
(* The registry catalog (registry.ts, items/*.ts).                         *)
(***************************************************************************)
\* 'fumadocs/sdk-layout'
IdFumadocs ==
    <<"f","u","m","a","d","o","c","s","/","s","d","k","-","l","a","y","o","u","t">>
\* 'fumadocs'
NsFumadocs ==
    <<"f","u","m","a","d","o","c","s">>
\* 'sdk-layout'
NameSdkLayout ==
    <<"s","d","k","-","l","a","y","o","u","t">>
\* 'fumadocs/blocks/sdk-layout/index.ts'
SourceIndex ==
    <<"f","u","m","a","d","o","c","s","/","b","l","o","c","k","s","/","s","d","k","-","l","a","y","o","u","t","/","i","n","d","e","x",".","t","s">>
\* 'sdk-layout/index.ts'
TargetIndex ==
    <<"s","d","k","-","l","a","y","o","u","t","/","i","n","d","e","x",".","t","s">>
\* 'fumadocs/blocks/sdk-layout/types/sdk-function-page-types.ts'
SourceTypes ==
    <<"f","u","m","a","d","o","c","s","/","b","l","o","c","k","s","/","s","d","k","-","l","a","y","o","u","t","/","t","y","p","e","s","/","s","d","k","-","f","u","n","c","t","i","o","n","-","p","a","g","e","-","t","y","p","e","s",".","t","s">>
\* 'sdk-layout/types/sdk-function-page-types.ts'
TargetTypes ==
    <<"s","d","k","-","l","a","y","o","u","t","/","t","y","p","e","s","/","s","d","k","-","f","u","n","c","t","i","o","n","-","p","a","g","e","-","t","y","p","e","s",".","t","s">>
\* 'fumadocs/blocks/sdk-layout/sections/sdk-section.tsx'
SourceSection ==
    <<"f","u","m","a","d","o","c","s","/","b","l","o","c","k","s","/","s","d","k","-","l","a","y","o","u","t","/","s","e","c","t","i","o","n","s","/","s","d","k","-","s","e","c","t","i","o","n",".","t","s","x">>
\* 'sdk-layout/sections/sdk-section.tsx'
TargetSection ==
    <<"s","d","k","-","l","a","y","o","u","t","/","s","e","c","t","i","o","n","s","/","s","d","k","-","s","e","c","t","i","o","n",".","t","s","x">>
\* 'fumadocs/blocks/sdk-layout/interactive/sdk-function-page-interactive.tsx'
SourceInteractive ==
    <<"f","u","m","a","d","o","c","s","/","b","l","o","c","k","s","/","s","d","k","-","l","a","y","o","u","t","/","i","n","t","e","r","a","c","t","i","v","e","/","s","d","k","-","f","u","n","c","t","i","o","n","-","p","a","g","e","-","i","n","t","e","r","a","c","t","i","v","e",".","t","s","x">>
\* 'sdk-layout/interactive/sdk-function-page-interactive.tsx'
TargetInteractive ==
    <<"s","d","k","-","l","a","y","o","u","t","/","i","n","t","e","r","a","c","t","i","v","e","/","s","d","k","-","f","u","n","c","t","i","o","n","-","p","a","g","e","-","i","n","t","e","r","a","c","t","i","v","e",".","t","s","x">>
\* 'fumadocs/components/mdx/package-manager-tabs.tsx'
SourceTabs ==
    <<"f","u","m","a","d","o","c","s","/","c","o","m","p","o","n","e","n","t","s","/","m","d","x","/","p","a","c","k","a","g","e","-","m","a","n","a","g","e","r","-","t","a","b","s",".","t","s","x">>
\* 'mdx/package-manager-tabs.tsx'
TargetTabs ==
    <<"m","d","x","/","p","a","c","k","a","g","e","-","m","a","n","a","g","e","r","-","t","a","b","s",".","t","s","x">>
\* 'branding/logo-with-badge'
IdBranding ==
    <<"b","r","a","n","d","i","n","g","/","l","o","g","o","-","w","i","t","h","-","b","a","d","g","e">>
\* 'branding'
NsBranding ==
    <<"b","r","a","n","d","i","n","g">>
\* 'logo-with-badge'
NameLogo ==
    <<"l","o","g","o","-","w","i","t","h","-","b","a","d","g","e">>
\* 'branding/components/branding/logo-with-badge.tsx'
SourceLogo ==
    <<"b","r","a","n","d","i","n","g","/","c","o","m","p","o","n","e","n","t","s","/","b","r","a","n","d","i","n","g","/","l","o","g","o","-","w","i","t","h","-","b","a","d","g","e",".","t","s","x">>
\* 'components/branding/logo-with-badge.tsx'
TargetLogo ==
    <<"c","o","m","p","o","n","e","n","t","s","/","b","r","a","n","d","i","n","g","/","l","o","g","o","-","w","i","t","h","-","b","a","d","g","e",".","t","s","x">>

RegistryFile(source, target, replaceImports) ==
    [source |-> source, target |-> target, replaceImports |-> replaceImports]

\* dependencies / registryDependencies: <<>> stands for an absent field too
fumadocsSdkLayoutItem ==
    [id |-> IdFumadocs,
     namespace |-> NsFumadocs,
     name |-> NameSdkLayout,
     description |-> "Interactive SDK docs layout components for Fumadocs pages.",
     dependencies |-> <<"fumadocs-ui", "json5">>,
     registryDependencies |-> <<"combobox">>,
     files |-> <<
        RegistryFile(SourceIndex, TargetIndex, NoMapping),
        RegistryFile(SourceTypes, TargetTypes, NoMapping),
        RegistryFile(SourceSection, TargetSection,
                     MappingOf(<<Entry(KeyCn, ToUtils)>>)),
        RegistryFile(SourceInteractive, TargetInteractive,
                     MappingOf(<<Entry(KeyTabs, ToTabs),
                                 Entry(KeyCombobox, ToCombobox)>>)),
        RegistryFile(SourceTabs, TargetTabs, NoMapping) >>]

brandingLogoWithBadgeItem ==
    [id |-> IdBranding,
     namespace |-> NsBranding,
     name |-> NameLogo,
     description |-> "Brand header row with logo slot, title, and badge text.",
     dependencies |-> <<>>,
     registryDependencies |-> <<>>,
     files |-> << RegistryFile(SourceLogo, TargetLogo, NoMapping) >>]

\* const items: RegistryItem[] = [fumadocsSdkLayoutItem, brandingLogoWithBadgeItem]
CatalogItems == <<fumadocsSdkLayoutItem, brandingLogoWithBadgeItem>>

\* mutant: the array is returned in another order
listRegistryItemsReversed(its) ==
    [i \in 1..Len(its) |-> its[Len(its) + 1 - i]]

\* listRegistryItems(): the module's array itself
listRegistryItems(its) == its

\* mutant: an item is found by a prefix of its id
findRegistryItemByPrefix(its, id) ==
    LET hits == {i \in 1..Len(its) : StartsWith(its[i].id, id)} IN
    IF hits = {} THEN <<>>
    ELSE <<its[CHOOSE i \in hits : \A j \in hits : i <= j]>>

\* findRegistryItem(id): items.find(item => item.id === id) ?? null; the
\* result is <<item>>, or <<>> for null
findRegistryItem(its, id) ==
    LET hits == {i \in 1..Len(its) : its[i].id = id} IN
    IF hits = {} THEN <<>>
    ELSE <<its[CHOOSE i \in hits : \A j \in hits : i <= j]>>

\* a call of the catalog's interface and what it returned
CallListRegistryItems ==
    /\ Len(catLog) < MaxCatCalls
    /\ catLog' = Append(catLog, [op |-> "list", id |-> <<>>,
                                 result |-> listRegistryItems(items)])
    /\ UNCHANGED <<items, CatFrame>>

CallFindRegistryItem(id) ==
    /\ Len(catLog) < MaxCatCalls
    /\ catLog' = Append(catLog, [op |-> "find", id |-> id,
                                 result |-> findRegistryItem(items, id)])
    /\ UNCHANGED <<items, CatFrame>>

(***************************************************************************)
(* The file materializer (helpers.ts).  writeIfMissing is an async         *)
(* function: existsSync runs at the call, then the function awaits mkdir,  *)
(* then it awaits writeFile, then it returns.  Each await ends a step.     *)
(* I/O failures of the operating system (permissions, a regular file in    *)
(* the place of an ancestor directory) are outside this model.             *)
(***************************************************************************)
Callers == {1, 2}
EmptyFiles == [p \in {} |-> <<>>]
WimIdle == [pc |-> "idle", path |-> <<>>, content |-> <<>>, result |-> "none"]

\* the proper prefixes of a resolved path: its ancestor directories
Ancestors(path) == {SubSeq(path, 1, k) : k \in 0..(Len(path) - 1)}

\* mutant: mkdir without { recursive: true } makes the last directory only
MkdirParentOnly(fsDirs, d) == fsDirs \cup {d}

\* mkdir(d, { recursive: true })
MkdirRecursive(fsDirs, d) == fsDirs \cup Ancestors(d) \cup {d}

\* writeFile(path, content, "utf8"): creates the file or replaces its content
WriteFile(fsFiles, path, content) ==
    [q \in DOMAIN fsFiles \cup {path} |->
        IF q = path THEN content ELSE fsFiles[q]]

\* mutant: only a directory at the path counts as existing
existsSyncDirsOnly(fsFiles, fsDirs, path) == path \in fsDirs

\* existsSync(path): true of files and of directories
existsSync(fsFiles, fsDirs, path) ==
    path \in DOMAIN fsFiles \/ path \in fsDirs

\* mutant: the guard is missing, every call writes
WimSkipsNever(fsFiles, fsDirs, path) == FALSE

\* if (existsSync(path)) return "skipped";
WimSkips(fsFiles, fsDirs, path) == existsSync(fsFiles, fsDirs, path)

LogEntry(w) == [path |-> w.path, content |-> w.content, result |-> w.result]

\* the call, up to its first await or to its return
WimCall(c, path, content) ==
    /\ wim[c].pc \in {"idle", "done"}
    /\ Len(wimLog) + Cardinality({d \in Callers : wim[d].pc \in {"mkdir", "write"}})
          < MaxCalls
    /\ IF WimSkips(files, dirs, path)
       THEN LET w == [pc |-> "done", path |-> path, content |-> content,
                      result |-> "skipped"]
            IN  /\ wim' = [wim EXCEPT ![c] = w]
                /\ wimLog' = Append(wimLog, LogEntry(w))
       ELSE /\ wim' = [wim EXCEPT ![c] =
                          [pc |-> "mkdir", path |-> path, content |-> content,
                           result |-> "none"]]
            /\ UNCHANGED wimLog
    /\ UNCHANGED <<files, dirs, fs0, WimFrame>>

\* await mkdir(dirname(path), { recursive: true })
WimMkdir(c) ==
    /\ wim[c].pc = "mkdir"
    /\ dirs' = MkdirRecursive(dirs, Dirname(wim[c].path))
    /\ wim' = [wim EXCEPT ![c].pc = "write"]
    /\ UNCHANGED <<files, fs0, wimLog, WimFrame>>

\* mutant: the write is exclusive (flag "wx"): a file that came into being
\* since the check is kept and the call returns "skipped"
WimWriteExclusive(c) ==
    /\ wim[c].pc = "write"
    /\ LET there == wim[c].path \in DOMAIN files
           w == [wim[c] EXCEPT !.pc = "done",
                               !.result = IF there THEN "skipped" ELSE "created"]
       IN  /\ files' = IF there THEN files
                       ELSE WriteFile(files, wim[c].path, wim[c].content)
           /\ wim' = [wim EXCEPT ![c] = w]
           /\ wimLog' = Append(wimLog, LogEntry(w))
    /\ UNCHANGED <<dirs, fs0, WimFrame>>

\* await writeFile(path, content, "utf8"); return "created"
WimWrite(c) ==
    /\ wim[c].pc = "write"
    /\ files' = WriteFile(files, wim[c].path, wim[c].content)
    /\ LET w == [wim[c] EXCEPT !.pc = "done", !.result = "created"]
       IN  /\ wim' = [wim EXCEPT ![c] = w]
           /\ wimLog' = Append(wimLog, LogEntry(w))
    /\ UNCHANGED <<dirs, fs0, WimFrame>>

(***************************************************************************)
(* fileTypeForTarget (export.ts): the registry type of an exported file,   *)
(* decided from its target path by the first test that passes.             *)
(***************************************************************************)
\* 'app/'
PfxApp ==
    <<"a","p","p","/">>
\* '/hooks/'
DirHooks ==
    <<"/","h","o","o","k","s","/">>
\* 'hooks/'
PfxHooks ==
    <<"h","o","o","k","s","/">>
\* '/lib/'
DirLib ==
    <<"/","l","i","b","/">>
\* 'lib/'
PfxLib ==
    <<"l","i","b","/">>
\* '/types/'
DirTypes ==
    <<"/","t","y","p","e","s","/">>
\* 'types/'
PfxTypes ==
    <<"t","y","p","e","s","/">>

\* mutant: the library test runs before the hook test
fileTypeForTargetLibFirst(target) ==
    IF StartsWith(target, PfxApp) THEN "registry:page"
    ELSE IF \/ Includes(target, DirLib) \/ StartsWith(target, PfxLib)
            \/ Includes(target, DirTypes) \/ StartsWith(target, PfxTypes)
         THEN "registry:lib"
    ELSE IF Includes(target, DirHooks) \/ StartsWith(target, PfxHooks)
         THEN "registry:hook"
    ELSE "registry:component"

fileTypeForTarget(target) ==
    IF StartsWith(target, PfxApp) THEN "registry:page"
    ELSE IF Includes(target, DirHooks) \/ StartsWith(target, PfxHooks)
         THEN "registry:hook"
    ELSE IF \/ Includes(target, DirLib) \/ StartsWith(target, PfxLib)
            \/ Includes(target, DirTypes) \/ StartsWith(target, PfxTypes)
         THEN "registry:lib"
    ELSE "registry:component"

FtIdle == [pc |-> "idle", segs |-> <<>>, target |-> <<>>, result |-> "none"]

\* segs.join("/")
RECURSIVE Join(_)
Join(segs) ==
    IF segs = <<>> THEN <<>>
    ELSE IF Len(segs) = 1 THEN segs[1]
    ELSE segs[1] \o <<"/">> \o Join(Tail(segs))

(***************************************************************************)
(* The `add` command: runCli (apply variant) and applyRegistryItem         *)
(* (apply.ts).  The command is one process; it runs from AddStart to       *)
(* pc = "exited", each await ending a step.  argument is rest[0]: None     *)
(* when no argument was given.                                             *)
(***************************************************************************)
\* '/'
Slash ==
    <<"/">>

RunIdle ==
    [pc |-> "idle", command |-> "none", variant |-> "none", argument |-> None,
     registryArgs |-> <<>>, url |-> "", raw |-> NoConfigFile,
     doc |-> NoConfigFile,
     lookup |-> "none", item |-> <<>>, error |-> "none",
     exitCode |-> 0, aliases |-> NoAliases, componentsRoot |-> <<>>,
     idx |-> 0, wpath |-> <<>>, wcontent |-> <<>>,
     out |-> <<>>, reads |-> 0, spawns |-> <<>>]

\* no command is running
Quiescent == run.pc \in {"idle", "exited"} /\ exp.pc \in {"idle", "exited"}

\* supportedNamespaces
SupportedNamespaces(its) == {its[i].namespace : i \in 1..Len(its)}

\* mutant: the item is looked up by its namespace alone
CliAddLookupByNamespace(its, argument) ==
    IF argument = None \/ argument[1] = <<>>
    THEN [status |-> "missing-argument", item |-> <<>>]
    ELSE LET parts == Split(argument[1])
             namespace == parts[1]
             name == IF Len(parts) >= 2 THEN parts[2] ELSE <<>>
         IN  IF namespace = <<>> \/ name = <<>>
             THEN [status |-> "invalid-format", item |-> <<>>]
             ELSE IF namespace \notin SupportedNamespaces(listRegistryItems(its))
             THEN [status |-> "unknown-namespace", item |-> <<>>]
             ELSE [status |-> "found",
                   item |-> <<its[CHOOSE i \in 1..Len(its) :
                                    its[i].namespace = namespace]>>]

\* mutant: an argument of more than two segments is an invalid format
CliAddLookupTwoSegments(its, argument) ==
    IF argument = None \/ argument[1] = <<>>
    THEN [status |-> "missing-argument", item |-> <<>>]
    ELSE LET parts == Split(argument[1])
             namespace == parts[1]
             name == IF Len(parts) >= 2 THEN parts[2] ELSE <<>>
         IN  IF namespace = <<>> \/ name = <<>> \/ Len(parts) > 2
             THEN [status |-> "invalid-format", item |-> <<>>]
             ELSE IF namespace \notin SupportedNamespaces(listRegistryItems(its))
             THEN [status |-> "unknown-namespace", item |-> <<>>]
             ELSE LET itemEntry == findRegistryItem(its, namespace \o Slash \o name)
                  IN  IF itemEntry = <<>>
                      THEN [status |-> "unknown-item", item |-> <<>>]
                      ELSE [status |-> "found", item |-> itemEntry]

\* runCli, command "add", up to the call of applyRegistryItem: the outcome of
\* the argument checks and of the lookup
CliAddLookup(its, argument) ==
    IF argument = None \/ argument[1] = <<>>
    THEN [status |-> "missing-argument", item |-> <<>>]
    ELSE LET parts == Split(argument[1])
             namespace == parts[1]
             name == IF Len(parts) >= 2 THEN parts[2] ELSE <<>>
         IN  IF namespace = <<>> \/ name = <<>>
             THEN [status |-> "invalid-format", item |-> <<>>]
             ELSE IF namespace \notin SupportedNamespaces(listRegistryItems(its))
             THEN [status |-> "unknown-namespace", item |-> <<>>]
             ELSE LET itemEntry == findRegistryItem(its, namespace \o Slash \o name)
                  IN  IF itemEntry = <<>>
                      THEN [status |-> "unknown-item", item |-> <<>>]
                      ELSE [status |-> "found", item |-> itemEntry]

\* the exit code of the process: process.exitCode, or that of a runCli whose
\* promise rejected
ProcessExitCode(r) == IF r.error # "none" THEN 1 ELSE r.exitCode

\* the file the loop is at
CurrentFile == run.item[1].files[run.idx]

\* the run after file idx is dealt with: the next iteration, or the install
AfterFile(r) ==
    IF r.idx < Len(r.item[1].files)
    THEN [r EXCEPT !.pc = "file", !.idx = r.idx + 1]
    ELSE [r EXCEPT !.pc = "install"]

\* const transformed = applyImportReplacements(source, replaceImports)
Transformed(file, source, aliases) ==
    applyImportReplacements(source,
                            InterpolatedImports(file.replaceImports, aliases))

\* `lally-ui add <argument>` starts: the argument checks, the lookup and, for
\* a found item, applyRegistryItem up to its first await (readAliasContext
\* throws at once when components.json is missing)
AddStart(argument) ==
    /\ Quiescent
    /\ runs + exp.n < MaxRuns
    /\ runs' = runs + 1
    /\ LET found == CliAddLookup(items, argument)
           r == [RunIdle EXCEPT !.command = "add",
                                !.variant = "apply", !.argument = argument,
                                !.lookup = found.status, !.item = found.item]
       IN  IF found.status # "found"
           THEN run' = [r EXCEPT !.pc = "exited", !.exitCode = 1]
           ELSE IF readAliasContext(config, CwdText).error # "none"
           THEN run' = [r EXCEPT !.pc = "exited",
                                 !.error = readAliasContext(config, CwdText).error]
           ELSE run' = [r EXCEPT !.pc = "config"]
    /\ UNCHANGED <<config, files, dirs, items, templates, edits, AddFrame, expVars>>

\* readAliasContext returns; the loop reaches the readFile of its first file
ApplyReadConfig ==
    /\ run.pc = "config"
    /\ LET ctx == readAliasContext(config, CwdText)
           r == [run EXCEPT !.aliases = ctx.aliases,
                            !.componentsRoot = ctx.componentsRoot]
       IN  run' = AfterFile(r)
    /\ UNCHANGED <<config, files, dirs, items, templates, runs, edits, AddFrame, expVars>>

\* mutant: a template that cannot be read is passed over and the loop goes on
ApplyReadTemplateSkipsMissing ==
    /\ run.pc = "file"
    /\ LET file == CurrentFile
           r == [run EXCEPT !.reads = run.reads + 1]
       IN  IF templates[file.source] = None
           THEN run' = AfterFile(r)
           ELSE LET transformed ==
                        Transformed(file, templates[file.source][1], run.aliases)
                    targetPath == ResolveOne(run.componentsRoot, file.target)
                IN  IF WimSkips(files, dirs, targetPath)
                    THEN run' = AfterFile(
                            [r EXCEPT !.out = Append(r.out,
                                [kind |-> "Skipped", path |-> targetPath])])
                    ELSE run' = [r EXCEPT !.pc = "mkdir",
                                          !.wpath = targetPath,
                                          !.wcontent = transformed]
    /\ UNCHANGED <<config, files, dirs, items, templates, runs, edits, AddFrame, expVars>>

\* readFile(sourcePath) settles; on success the content is rewritten and
\* writeIfMissing is called, which returns "skipped" or awaits mkdir
ApplyReadTemplate ==
    /\ run.pc = "file"
    /\ LET file == CurrentFile
           r == [run EXCEPT !.reads = run.reads + 1]
       IN  IF templates[file.source] = None
           THEN run' = [r EXCEPT !.pc = "exited", !.error = "ENOENT"]
           ELSE LET transformed ==
                        Transformed(file, templates[file.source][1], run.aliases)
                    targetPath == ResolveOne(run.componentsRoot, file.target)
                IN  IF WimSkips(files, dirs, targetPath)
                    THEN run' = AfterFile(
                            [r EXCEPT !.out = Append(r.out,
                                [kind |-> "Skipped", path |-> targetPath])])
                    ELSE run' = [r EXCEPT !.pc = "mkdir",
                                          !.wpath = targetPath,
                                          !.wcontent = transformed]
    /\ UNCHANGED <<config, files, dirs, items, templates, runs, edits, AddFrame, expVars>>

\* writeIfMissing: await mkdir(dirname(path), { recursive: true })
ApplyMkdir ==
    /\ run.pc = "mkdir"
    /\ dirs' = MkdirRecursive(dirs, Dirname(run.wpath))
    /\ run' = [run EXCEPT !.pc = "write"]
    /\ UNCHANGED <<config, files, items, templates, runs, edits, AddFrame, expVars>>

\* writeIfMissing: await writeFile(path, content); "created" is logged
ApplyWrite ==
    /\ run.pc = "write"
    /\ files' = WriteFile(files, run.wpath, run.wcontent)
    /\ run' = AfterFile(
          [run EXCEPT !.out = Append(run.out,
                                     [kind |-> "Created", path |-> run.wpath]),
                      !.wpath = <<>>, !.wcontent = <<>>])
    /\ UNCHANGED <<config, dirs, items, templates, runs, edits, AddFrame, expVars>>

\* mutant: the install is left out when no file was created
ApplyInstallWhenCreated ==
    /\ run.pc = "install"
    /\ LET deps == run.item[1].dependencies IN
       IF deps = <<>> \/ \A k \in 1..Len(run.out) : run.out[k].kind = "Skipped"
       THEN run' = [run EXCEPT !.pc = "exited"]
       ELSE \E status \in {0, 1} :
               run' = [run EXCEPT !.pc = "exited",
                                  !.spawns = Append(run.spawns,
                                      [tool |-> "install", deps |-> deps,
                                       ref |-> <<>>, status |-> status])]
    /\ UNCHANGED <<config, files, dirs, items, templates, runs, edits, AddFrame, expVars>>

\* installDepsIfNeeded(cwd, item.dependencies ?? []): nothing for no
\* dependency, else one spawnSync whose status is only reported
ApplyInstall ==
    /\ run.pc = "install"
    /\ LET deps == run.item[1].dependencies IN
       IF deps = <<>>
       THEN run' = [run EXCEPT !.pc = "exited"]
       ELSE \E status \in {0, 1} :
               run' = [run EXCEPT !.pc = "exited",
                                  !.spawns = Append(run.spawns,
                                      [tool |-> "install", deps |-> deps,
                                       ref |-> <<>>, status |-> status])]
    /\ UNCHANGED <<config, files, dirs, items, templates, runs, edits, AddFrame, expVars>>

\* between commands the consumer edits a file of the project
ConsumerEditsFile(path, content) ==
    /\ Quiescent
    /\ edits < MaxEdits
    /\ path \in DOMAIN files
    /\ files[path] # content
    /\ files' = [files EXCEPT ![path] = content]
    /\ edits' = edits + 1
    /\ UNCHANGED <<config, dirs, items, templates, run, runs, AddFrame, expVars>>

\* between commands the consumer changes (creates, removes) components.json
ConsumerSetsConfig(cfg) ==
    /\ Quiescent
    /\ edits < MaxEdits
    /\ cfg # config
    /\ config' = cfg
    /\ edits' = edits + 1
    /\ UNCHANGED <<files, dirs, items, templates, run, runs, AddFrame, expVars>>

(***************************************************************************)
(* The `registry export` command: exportRegistry, readTemplateContent and  *)
(* writeJson (export.ts).  The command is one process; each await ends a   *)
(* step.  A document is the value handed to JSON.stringify: a property     *)
(* whose value is undefined is left out of the text, which <<>> stands for *)
(* in dependencies and registryDependencies.                               *)
(***************************************************************************)
ExpIdle ==
    [pc |-> "idle", n |-> 0, item |-> 0, idx |-> 0, acc |-> <<>>,
     exportedItems |-> <<>>, error |-> "none", wname |-> <<>>, wdoc |-> <<>>,
     written |-> <<>>, reads |-> 0]

\* outDir does not exist
OutDirAbsent == [dir |-> FALSE, files |-> EmptyFiles]

\* mutant: the export interpolates from the aliases of components.json
ConsumerAliasesAtExport == ResolvedAliases(config)

\* const DEFAULT_ALIASES
DEFAULT_ALIASES ==
    [componentsAlias |-> DefaultComponentsAlias,
     uiAlias |-> DefaultUiAlias,
     utilsAlias |-> DefaultUtilsAlias]

\* '.json'
JsonExt ==
    <<".","j","s","o","n">>
\* 'registry.json'
RegistryJson ==
    <<"r","e","g","i","s","t","r","y",".","j","s","o","n">>
\* 'registry/chris-lally/'
RegistryPathPrefix ==
    <<"r","e","g","i","s","t","r","y","/","c","h","r","i","s","-","l","a","l","l","y","/">>

LowerCaseLetters ==
    <<"a","b","c","d","e","f","g","h","i","j","k","l","m","n","o","p","q","r","s","t","u","v","w","x","y","z">>
UpperCaseLetters ==
    <<"A","B","C","D","E","F","G","H","I","J","K","L","M","N","O","P","Q","R","S","T","U","V","W","X","Y","Z">>
Digits ==
    {"0","1","2","3","4","5","6","7","8","9"}

\* the class \w of a regular expression
IsWordChar(c) ==
    \/ \E k \in 1..Len(LowerCaseLetters) : c = LowerCaseLetters[k] \/ c = UpperCaseLetters[k]
    \/ c \in Digits
    \/ c = "_"

\* ch.toUpperCase() of one character (ASCII)
ToUpperCase(c) ==
    IF \E k \in 1..Len(LowerCaseLetters) : c = LowerCaseLetters[k]
    THEN UpperCaseLetters[CHOOSE k \in 1..Len(LowerCaseLetters) : c = LowerCaseLetters[k]]
    ELSE c

\* mutant: only hyphens become spaces
titleCaseHyphensOnly(text) ==
    LET spaced == [i \in 1..Len(text) |->
                      IF text[i] = "-" THEN " " ELSE text[i]]
    IN  [i \in 1..Len(spaced) |->
            IF IsWordChar(spaced[i]) /\ (i = 1 \/ ~IsWordChar(spaced[i - 1]))
            THEN ToUpperCase(spaced[i])
            ELSE spaced[i]]

\* text.replace(/[-_]/g, " ").replace(/\b\w/g, (ch) => ch.toUpperCase())
titleCase(text) ==
    LET spaced == [i \in 1..Len(text) |->
                      IF text[i] \in {"-", "_"} THEN " " ELSE text[i]]
    IN  [i \in 1..Len(spaced) |->
            IF IsWordChar(spaced[i]) /\ (i = 1 \/ ~IsWordChar(spaced[i - 1]))
            THEN ToUpperCase(spaced[i])
            ELSE spaced[i]]

\* item.id.replaceAll("/", "-")
slugForItem(item) == ReplaceAllLiteral(item.id, <<"/">>, <<"-">>)

\* `${slug}.json`, the file of an item under outDir
ItemJson(item) == slugForItem(item) \o JsonExt

\* readTemplateContent: the ExportedRegistryFile pushed for one file
ExportedFile(item, file, source) ==
    [path |-> RegistryPathPrefix \o slugForItem(item) \o <<"/">> \o file.target,
     content |-> applyImportReplacements(source,
                    InterpolatedImports(file.replaceImports, DEFAULT_ALIASES)),
     type |-> fileTypeForTarget(file.target),
     target |-> file.target]

\* exportRegistry: const exportedItem
ExportedItem(item, exportedFiles) ==
    [schema |-> "https://ui.shadcn.com/schema/registry-item.json",
     name |-> slugForItem(item),
     type |-> "registry:component",
     title |-> titleCase(slugForItem(item)),
     description |-> item.description,
     dependencies |-> item.dependencies,
     registryDependencies |-> item.registryDependencies,
     files |-> exportedFiles]

\* mutant: the manifest lists each file by its target
ManifestEntryByTarget(item, exportedFiles) ==
    [name |-> slugForItem(item),
     type |-> "registry:component",
     title |-> titleCase(slugForItem(item)),
     description |-> item.description,
     dependencies |-> item.dependencies,
     registryDependencies |-> item.registryDependencies,
     files |-> [k \in 1..Len(exportedFiles) |->
                  [path |-> exportedFiles[k].target,
                   type |-> exportedFiles[k].type,
                   target |-> exportedFiles[k].target]]]

\* exportRegistry: the entry pushed to exportedItems
ManifestEntry(item, exportedFiles) ==
    [name |-> slugForItem(item),
     type |-> "registry:component",
     title |-> titleCase(slugForItem(item)),
     description |-> item.description,
     dependencies |-> item.dependencies,
     registryDependencies |-> item.registryDependencies,
     files |-> [k \in 1..Len(exportedFiles) |->
                  [path |-> exportedFiles[k].path,
                   type |-> exportedFiles[k].type,
                   target |-> exportedFiles[k].target]]]

\* exportRegistry: the value written to registry.json
Manifest(exportedItems) ==
    [schema |-> "https://ui.shadcn.com/schema/registry.json",
     name |-> "chris-lally",
     homepage |-> "https://github.com/ChrisLally/lally-ui",
     items |-> exportedItems]

\* writeJson(resolve(outDir, name), doc) is called: it awaits mkdir
CallWriteJson(e, name, doc) ==
    [e EXCEPT !.pc = "mkdir", !.wname = name, !.wdoc = <<doc>>]

\* mutant: an item whose files are read is listed and the loop goes on, its
\* own file is not written
RECURSIVE ExportAtFileNoItemWrite(_, _, _)
ExportAtFileNoItemWrite(e, its, tpl) ==
    IF e.idx > Len(its[e.item].files)
    THEN LET listed == [e EXCEPT !.exportedItems =
                            Append(e.exportedItems, ManifestEntry(its[e.item], e.acc)),
                                 !.item = e.item + 1, !.acc = <<>>]
         IN  IF e.item + 1 > Len(its)
             THEN CallWriteJson([listed EXCEPT !.idx = 0], RegistryJson,
                                Manifest(listed.exportedItems))
             ELSE ExportAtFileNoItemWrite([listed EXCEPT !.idx = 1], its, tpl)
    ELSE IF tpl[its[e.item].files[e.idx].source] = None
    THEN [e EXCEPT !.pc = "exited", !.error = "missing-source"]
    ELSE [e EXCEPT !.pc = "read"]

\* mutant: a file whose source is missing is left out of the item
RECURSIVE ExportAtFileSkipsMissing(_, _, _)
ExportAtFileSkipsMissing(e, its, tpl) ==
    IF e.idx > Len(its[e.item].files)
    THEN CallWriteJson(e, ItemJson(its[e.item]), ExportedItem(its[e.item], e.acc))
    ELSE IF tpl[its[e.item].files[e.idx].source] = None
    THEN ExportAtFileSkipsMissing([e EXCEPT !.idx = e.idx + 1], its, tpl)
    ELSE [e EXCEPT !.pc = "read"]

\* readTemplateContent at the head of its loop, file e.idx of item e.item:
\* after the last file the item's document is handed to writeJson; a source
\* that does not exist throws; else readFile is awaited
ExportAtFile(e, its, tpl) ==
    IF e.idx > Len(its[e.item].files)
    THEN CallWriteJson(e, ItemJson(its[e.item]), ExportedItem(its[e.item], e.acc))
    ELSE IF tpl[its[e.item].files[e.idx].source] = None
    THEN [e EXCEPT !.pc = "exited", !.error = "missing-source"]
    ELSE [e EXCEPT !.pc = "read"]

\* exportRegistry at the head of its loop, item i: after the last item the
\* manifest is handed to writeJson
ExportAtItem(e, i, its, tpl) ==
    IF i > Len(its)
    THEN CallWriteJson([e EXCEPT !.item = i, !.idx = 0, !.acc = <<>>],
                       RegistryJson, Manifest(e.exportedItems))
    ELSE ExportAtFile([e EXCEPT !.item = i, !.idx = 1, !.acc = <<>>], its, tpl)

\* mutant: exportRegistry reverses the array listRegistryItems returned, in
\* place, before it loops over it
ExportStartReversesCatalog ==
    /\ Quiescent
    /\ runs + exp.n < MaxRuns
    /\ exp.n < MaxExports
    /\ items' = [i \in 1..Len(items) |-> items[Len(items) + 1 - i]]
    /\ exp' = ExportAtItem([ExpIdle EXCEPT !.n = exp.n + 1], 1,
                           listRegistryItems(items'), templates)
    /\ UNCHANGED <<config, files, dirs, templates, run, runs, edits,
                   outFs, AddFrame>>

\* mutant: exportRegistry looks for every source of every item before it
\* writes anything
ExportStartChecksAllSources ==
    /\ Quiescent
    /\ runs + exp.n < MaxRuns
    /\ exp.n < MaxExports
    /\ LET its == listRegistryItems(items)
           bad == {i \in 1..Len(its) :
                      \E k \in 1..Len(its[i].files) :
                          templates[its[i].files[k].source] = None}
       IN  IF bad = {}
           THEN exp' = ExportAtItem([ExpIdle EXCEPT !.n = exp.n + 1], 1,
                                    its, templates)
           ELSE exp' = [ExpIdle EXCEPT !.n = exp.n + 1, !.pc = "exited",
                           !.error = "missing-source",
                           !.item = CHOOSE i \in bad : \A j \in bad : i <= j]
    /\ UNCHANGED <<config, files, dirs, items, templates, run, runs, edits,
                   outFs, AddFrame>>

\* `lally-ui registry export` starts: exportRegistry up to its first await
ExportStart ==
    /\ Quiescent
    /\ runs + exp.n < MaxRuns
    /\ exp.n < MaxExports
    /\ exp' = ExportAtItem([ExpIdle EXCEPT !.n = exp.n + 1], 1,
                           listRegistryItems(items), templates)
    /\ UNCHANGED <<config, files, dirs, items, templates, run, runs, edits,
                   outFs, AddFrame>>

\* readTemplateContent: readFile settles, the file is pushed and the loop
\* goes on
ExportRead ==
    /\ exp.pc = "read"
    /\ LET item == items[exp.item]
           file == item.files[exp.idx]
           e == [exp EXCEPT !.reads = exp.reads + 1]
       IN  IF templates[file.source] = None
           THEN exp' = [e EXCEPT !.pc = "exited", !.error = "ENOENT"]
           ELSE exp' = ExportAtFile(
                    [e EXCEPT !.acc = Append(e.acc,
                                  ExportedFile(item, file, templates[file.source][1])),
                              !.idx = e.idx + 1],
                    items, templates)
    /\ UNCHANGED <<config, files, dirs, items, templates, run, runs, edits,
                   outFs, AddFrame>>

\* writeJson: await mkdir(dirname(path), { recursive: true })
ExportMkdir ==
    /\ exp.pc = "mkdir"
    /\ outFs' = [outFs EXCEPT !.dir = TRUE]
    /\ exp' = [exp EXCEPT !.pc = "write"]
    /\ UNCHANGED <<config, files, dirs, items, templates, run, runs, edits,
                   AddFrame>>

\* mutant: a file that is already in outDir is kept, as `add` keeps files
ExportWriteIfMissing ==
    /\ exp.pc = "write"
    /\ outFs' = IF exp.wname \in DOMAIN outFs.files THEN outFs
               ELSE [outFs EXCEPT !.files =
                        WriteFile(outFs.files, exp.wname, exp.wdoc[1])]
    /\ LET e == [exp EXCEPT !.written = Append(exp.written, exp.wname),
                            !.wname = <<>>, !.wdoc = <<>>]
       IN  IF exp.item > Len(items)
           THEN exp' = [e EXCEPT !.pc = "exited"]
           ELSE exp' = ExportAtItem(
                    [e EXCEPT !.exportedItems = Append(e.exportedItems,
                                  ManifestEntry(items[exp.item], exp.acc))],
                    exp.item + 1, items, templates)
    /\ UNCHANGED <<config, files, dirs, items, templates, run, runs, edits,
                   AddFrame>>

\* writeJson: await writeFile(path, text); after an item's file its entry is
\* pushed and the next item begins, after the manifest the command is done
ExportWrite ==
    /\ exp.pc = "write"
    /\ outFs' = [outFs EXCEPT !.files = WriteFile(outFs.files, exp.wname, exp.wdoc[1])]
    /\ LET e == [exp EXCEPT !.written = Append(exp.written, exp.wname),
                            !.wname = <<>>, !.wdoc = <<>>]
       IN  IF exp.item > Len(items)
           THEN exp' = [e EXCEPT !.pc = "exited"]
           ELSE exp' = ExportAtItem(
                    [e EXCEPT !.exportedItems = Append(e.exportedItems,
                                  ManifestEntry(items[exp.item], exp.acc))],
                    exp.item + 1, items, templates)
    /\ UNCHANGED <<config, files, dirs, items, templates, run, runs, edits,
                   AddFrame>>

(***************************************************************************)
(* The `add` command of the registry-connect variant of runCli: the same   *)
(* argument checks and lookup, then the item is handed to `shadcn add`     *)
(* when components.json names the @chris-lally registry.                   *)
(***************************************************************************)
\* const DEFAULT_REGISTRY_URL
DEFAULT_REGISTRY_URL ==
    "https://raw.githubusercontent.com/ChrisLally/lally-ui/main/packages/ui/public/r/{name}.json"

\* the key of the registry in `registries`
ChrisLallyRegistry == "@chris-lally"

\* '@chris-lally/'
RegistryRefPrefix ==
    <<"@","c","h","r","i","s","-","l","a","l","l","y","/">>

\* itemId.replaceAll("/", "-")
toRegistryItemName(itemId) == ReplaceAllLiteral(itemId, <<"/">>, <<"-">>)

\* mutant: any `registries` object counts as connected
IsConnectedAnyRegistries(cfg) == cfg.registries.present

\* Boolean(parsed.registries?.["@chris-lally"]): an empty URL is falsy
IsConnected(cfg) ==
    /\ cfg.registries.present
    /\ \E k \in PropertyAt(cfg.registries.entries, ChrisLallyRegistry) :
          cfg.registries.entries[k].url # ""

\* spawnSync(...).status ?? 1, of a tool killed by a signal too
SpawnStatuses == {0, 1, 2}

\* the command ends with "Missing @chris-lally registry in components.json."
NotConnectedExit(r) == [r EXCEPT !.pc = "exited", !.exitCode = 1]

\* `lally-ui add <argument>` starts: the argument checks and the lookup; for
\* a found item hasConnectedRegistry returns false at once when
\* components.json is missing, else it awaits readFile
ConnectAddStart(argument) ==
    /\ Quiescent
    /\ runs + exp.n < MaxRuns
    /\ runs' = runs + 1
    /\ LET found == CliAddLookup(items, argument)
           r == [RunIdle EXCEPT !.command = "add",
                                !.variant = "connect", !.argument = argument,
                                !.lookup = found.status, !.item = found.item]
       IN  IF found.status # "found"
           THEN run' = [r EXCEPT !.pc = "exited", !.exitCode = 1]
           ELSE IF ~config.exists
           THEN run' = NotConnectedExit(r)
           ELSE run' = [r EXCEPT !.pc = "registries"]
    /\ UNCHANGED <<config, files, dirs, items, templates, edits, AddFrame, expVars>>

\* mutant: the status of the copy tool is dropped
ConnectAddSpawnDropsStatus ==
    /\ run.pc = "registries"
    /\ LET r == [run EXCEPT !.reads = run.reads + 1] IN
       IF ~config.exists
       THEN run' = [r EXCEPT !.pc = "exited", !.error = "ENOENT"]
       ELSE IF ~IsConnected(config)
       THEN run' = NotConnectedExit(r)
       ELSE \E status \in SpawnStatuses :
               run' = [r EXCEPT !.pc = "exited",
                                !.spawns = Append(r.spawns,
                                    [tool |-> "shadcn add", deps |-> <<>>,
                                     ref |-> RegistryRefPrefix \o
                                             toRegistryItemName(r.item[1].id),
                                     status |-> status])]
    /\ UNCHANGED <<config, files, dirs, items, templates, runs, edits, AddFrame, expVars>>

\* hasConnectedRegistry: readFile settles; without the registry the command
\* ends with exit code 1, with it runShadcnAdd spawns the copy tool once and a
\* status other than 0 becomes the exit code
ConnectAddSpawn ==
    /\ run.pc = "registries"
    /\ LET r == [run EXCEPT !.reads = run.reads + 1] IN
       IF ~config.exists
       THEN run' = [r EXCEPT !.pc = "exited", !.error = "ENOENT"]
       ELSE IF ~IsConnected(config)
       THEN run' = NotConnectedExit(r)
       ELSE \E status \in SpawnStatuses :
               run' = [r EXCEPT !.pc = "exited",
                                !.exitCode = status,
                                !.spawns = Append(r.spawns,
                                    [tool |-> "shadcn add", deps |-> <<>>,
                                     ref |-> RegistryRefPrefix \o
                                             toRegistryItemName(r.item[1].id),
                                     status |-> status])]
    /\ UNCHANGED <<config, files, dirs, items, templates, runs, edits, AddFrame, expVars>>

(***************************************************************************)
(* The `registry connect` command of the registry-connect variant:         *)
(* runCli's option loop and connectRegistry.  components.json is parsed,   *)
(* one property of `registries` is set, and the document is written back.  *)
(***************************************************************************)
\* the for loop over registryArgs: `--url` followed by a truthy value sets
\* registryUrl and the value is skipped
RECURSIVE RegistryUrlFrom(_, _, _)
RegistryUrlFrom(registryArgs, index, registryUrl) ==
    IF index > Len(registryArgs) THEN registryUrl
    ELSE IF /\ registryArgs[index] = "--url"
            /\ index + 1 <= Len(registryArgs)
            /\ registryArgs[index + 1] # ""
         THEN RegistryUrlFrom(registryArgs, index + 2, registryArgs[index + 1])
         ELSE RegistryUrlFrom(registryArgs, index + 1, registryUrl)

RegistryUrl(registryArgs) ==
    RegistryUrlFrom(registryArgs, 1, DEFAULT_REGISTRY_URL)

\* mutant: an earlier entry of the registry is kept; a new entry is added
\* only when there is none
connectRegistryKeepsFirst(parsed, registryUrl) ==
    IF PropertyAt(parsed.registries.entries, ChrisLallyRegistry) # {}
    THEN [parsed EXCEPT !.registries = Registries(parsed.registries.entries)]
    ELSE [parsed EXCEPT !.registries =
             Registries(Append(parsed.registries.entries,
                               RegistryEntry(ChrisLallyRegistry, registryUrl)))]

\* mutant: `registries` is built anew, with the one property
connectRegistryFresh(parsed, registryUrl) ==
    [parsed EXCEPT !.registries =
        Registries(<<RegistryEntry(ChrisLallyRegistry, registryUrl)>>)]

\* connectRegistry: the document that is written, from the parsed one
\*   const registries = parsed.registries ?? {};
\*   registries["@chris-lally"] = registryUrl; parsed.registries = registries
connectRegistry(parsed, registryUrl) ==
    [parsed EXCEPT !.registries =
        Registries(SetProperty(parsed.registries.entries,
                               ChrisLallyRegistry, registryUrl))]

\* `lally-ui registry connect <registryArgs>` starts: the option loop, then
\* connectRegistry throws at once when components.json is missing, else it
\* awaits readFile
ConnectStart(registryArgs) ==
    /\ Quiescent
    /\ runs + exp.n < MaxRuns
    /\ runs' = runs + 1
    /\ LET r == [RunIdle EXCEPT !.command = "registry connect",
                                !.variant = "connect",
                                !.registryArgs = registryArgs,
                                !.url = RegistryUrl(registryArgs)]
       IN  IF ~config.exists
           THEN run' = [r EXCEPT !.pc = "exited", !.error = "missing-config"]
           ELSE run' = [r EXCEPT !.pc = "parse"]
    /\ UNCHANGED <<config, files, dirs, items, templates, edits, AddFrame, expVars>>

\* readFile settles: the text is parsed (raw), the property is set, and
\* writeFile is awaited with the text of the document
ConnectRead ==
    /\ run.pc = "parse"
    /\ run' = [run EXCEPT !.pc = "store", !.reads = run.reads + 1,
                          !.raw = config,
                          !.doc = connectRegistry(config, run.url)]
    /\ UNCHANGED <<config, files, dirs, items, templates, runs, edits, AddFrame, expVars>>

\* writeFile settles: components.json holds the document
ConnectWrite ==
    /\ run.pc = "store"
    /\ config' = run.doc
    /\ run' = [run EXCEPT !.pc = "exited"]
    /\ UNCHANGED <<files, dirs, items, templates, runs, edits, AddFrame, expVars>>

(***************************************************************************)
(* Inputs of the alias resolver: the contents of components.json.          *)
(***************************************************************************)
\* 'lib/ui'
AliasLibUi ==
    <<"l","i","b","/","u","i">>
\* './ui'
AliasDotUi ==
    <<".","/","u","i">>
\* '../shared/ui'
AliasUp ==
    <<".",".","/","s","h","a","r","e","d","/","u","i">>
\* '/opt/ui'
AliasAbs ==
    <<"/","o","p","t","/","u","i">>
\* '@/blocks'
AliasAtBlocks ==
    <<"@","/","b","l","o","c","k","s">>
\* '~/components'
AliasTilde ==
    <<"~","/","c","o","m","p","o","n","e","n","t","s">>
\* '@/../ui'
AliasAtUp ==
    <<"@","/",".",".","/","u","i">>
\* '~/ui'
AliasTildeUi ==
    <<"~","/","u","i">>
\* '~/utils'
AliasTildeUtils ==
    <<"~","/","u","t","i","l","s">>
\* '@/lib/cn'
AliasAtCn ==
    <<"@","/","l","i","b","/","c","n">>

ComponentsAliases ==
    {DefaultComponentsAlias, AliasAtBlocks, AliasAtUp, AliasLibUi, AliasDotUi,
     AliasUp, AliasAbs, AliasTilde}
UiAliases == {DefaultUiAlias, AliasTildeUi}
UtilsAliases == {AliasTildeUtils, AliasAtCn}

Optional(S) == {None} \cup {Some(x) : x \in S}

Configs ==
    {NoConfigFile, ConfigNoAliases}
        \cup {ConfigWith(c, u, t) : c \in Optional(ComponentsAliases),
                                    u \in Optional(UiAliases),
                                    t \in Optional(UtilsAliases)}

(***************************************************************************)
(* Inputs of the rewriter.                                                 *)
(***************************************************************************)
\* "import { cn } from '../../../lib/cn';\n"
SegImportCn ==
    <<"i","m","p","o","r","t"," ","{"," ","c","n"," ","}"," ","f","r","o","m"," ","'",".",".","/",".",".","/",".",".","/","l","i","b","/","c","n","'",";","\n">>
\* 'import { cn } from "../../../lib/cn";\n'
SegImportCnDq ==
    <<"i","m","p","o","r","t"," ","{"," ","c","n"," ","}"," ","f","r","o","m"," ","\"",".",".","/",".",".","/",".",".","/","l","i","b","/","c","n","\"",";","\n">>
\* "import { cn } from '../../.a/lib/cn';\n"
SegImportHidden ==
    <<"i","m","p","o","r","t"," ","{"," ","c","n"," ","}"," ","f","r","o","m"," ","'",".",".","/",".",".","/",".","a","/","l","i","b","/","c","n","'",";","\n">>
\* "import { cn } from '../lib/cn';\n"
SegImportShort ==
    <<"i","m","p","o","r","t"," ","{"," ","c","n"," ","}"," ","f","r","o","m"," ","'",".",".","/","l","i","b","/","c","n","'",";","\n">>
\* 'import { Combobox } from "@/components/ui/combobox";\n'
SegImportCombobox ==
    <<"i","m","p","o","r","t"," ","{"," ","C","o","m","b","o","b","o","x"," ","}"," ","f","r","o","m"," ","\"","@","/","c","o","m","p","o","n","e","n","t","s","/","u","i","/","c","o","m","b","o","b","o","x","\"",";","\n">>
\* 'export const a = 1;\n'
SegCode ==
    <<"e","x","p","o","r","t"," ","c","o","n","s","t"," ","a"," ","="," ","1",";","\n">>
\* "import { cn } from '@/lib/utils';\n"
SegImportUtils ==
    <<"i","m","p","o","r","t"," ","{"," ","c","n"," ","}"," ","f","r","o","m"," ","'","@","/","l","i","b","/","u","t","i","l","s","'",";","\n">>
\* '~/ui/combobox'
ToTildeCombobox ==
    <<"~","/","u","i","/","c","o","m","b","o","b","o","x">>

Segments ==
    {SegImportCn, SegImportCnDq, SegImportHidden, SegImportShort,
     SegImportCombobox, SegCode}

RECURSIVE TextsOfLen(_)
TextsOfLen(n) ==
    IF n = 0 THEN {<<>>}
    ELSE {s \o t : s \in Segments, t \in TextsOfLen(n - 1)}

Texts == UNION {TextsOfLen(n) : n \in 0..MaxSegs}

Mappings ==
    {NoMapping,
     MappingOf(<<>>),
     MappingOf(<<Entry(KeyCn, DefaultUtilsAlias)>>),
     MappingOf(<<Entry(KeyCombobox, ToTildeCombobox)>>),
     MappingOf(<<Entry(KeyCn, DefaultUtilsAlias), Entry(KeyCombobox, ToTildeCombobox)>>),
     MappingOf(<<Entry(KeyCn, KeyCombobox), Entry(KeyCombobox, ToTildeCombobox)>>)}

(***************************************************************************)
(* Inputs of the materializer: target paths of the catalog under two       *)
(* components roots, and a file system that holds some of them already.    *)
(***************************************************************************)

\* the resolved cwd, '/proj'
CwdPath == PathResolve(<<CwdText>>)

WimPaths ==
    {PathResolve(<<CwdText, SrcDir, Slice(DefaultComponentsAlias, 2), TargetIndex>>),
     PathResolve(<<CwdText, SrcDir, Slice(DefaultComponentsAlias, 2), TargetSection>>),
     PathResolve(<<CwdText, AliasLibUi, TargetTabs>>)}

WimContents == {SegImportUtils, SegCode}

\* what a file the consumer already has holds
ConsumerContent == SegImportShort

\* a file system in which exactly the paths of S are files, with their
\* ancestor directories, cwd and the directories of extra
FsWith(S, extra) ==
    [files |-> [p \in S |-> ConsumerContent],
     dirs |-> {<<>>, CwdPath} \cup extra \cup UNION {Ancestors(p) : p \in S}]

InitialFileSystems ==
    {FsWith(S, extra) : S \in SUBSET WimPaths,
                        extra \in {{}, {PathResolve(<<CwdText, SrcDir>>)}}}

\* the project before two invocations run in it: no file, or one
RaceFileSystems ==
    {FsWith(S, {}) : S \in {T \in SUBSET WimPaths : Cardinality(T) <= 1}}

(***************************************************************************)
(* Inputs of the catalog: the ids looked up.                               *)
(***************************************************************************)
\* 'nonexistent/thing'
IdNonexistent ==
    <<"n","o","n","e","x","i","s","t","e","n","t","/","t","h","i","n","g">>
\* 'branding/logo'
IdPrefix ==
    <<"b","r","a","n","d","i","n","g","/","l","o","g","o">>
\* 'Branding/logo-with-badge'
IdUpper ==
    <<"B","r","a","n","d","i","n","g","/","l","o","g","o","-","w","i","t","h","-","b","a","d","g","e">>
\* 'logo-with-badge'
IdNameOnly ==
    <<"l","o","g","o","-","w","i","t","h","-","b","a","d","g","e">>

ProbeIds == {IdFumadocs, IdBranding, IdNonexistent, IdPrefix, IdUpper, IdNameOnly}

(***************************************************************************)
(* Inputs of the `add` command: the template root (each template by the    *)
(* import lines its head holds), the arguments, the consumer's             *)
(* components.json and project files.                                      *)
(***************************************************************************)
\* 'export { SDKSection } from "./sections/sdk-section";\n'
TplIndex ==
    <<"e","x","p","o","r","t"," ","{"," ","S","D","K","S","e","c","t","i","o","n"," ","}"," ","f","r","o","m"," ","\"",".","/","s","e","c","t","i","o","n","s","/","s","d","k","-","s","e","c","t","i","o","n","\"",";","\n">>
\* 'export type ParameterData = {\n'
TplTypes ==
    <<"e","x","p","o","r","t"," ","t","y","p","e"," ","P","a","r","a","m","e","t","e","r","D","a","t","a"," ","="," ","{","\n">>
\* 'import { PackageManagerTabs } from \'../../../components/shared/package-manager-tabs\';\nimport { Combobox } from "@/components/ui/combobox";\n'
TplInteractive ==
    <<"i","m","p","o","r","t"," ","{"," ","P","a","c","k","a","g","e","M","a","n","a","g","e","r","T","a","b","s"," ","}"," ","f","r","o","m"," ","'",".",".","/",".",".","/",".",".","/","c","o","m","p","o","n","e","n","t","s","/","s","h","a","r","e","d","/","p","a","c","k","a","g","e","-","m","a","n","a","g","e","r","-","t","a","b","s","'",";","\n","i","m","p","o","r","t"," ","{"," ","C","o","m","b","o","b","o","x"," ","}"," ","f","r","o","m"," ","\"","@","/","c","o","m","p","o","n","e","n","t","s","/","u","i","/","c","o","m","b","o","b","o","x","\"",";","\n">>
\* "import { Tab, Tabs } from 'fumadocs-ui/components/tabs';\n"
TplTabs ==
    <<"i","m","p","o","r","t"," ","{"," ","T","a","b",","," ","T","a","b","s"," ","}"," ","f","r","o","m"," ","'","f","u","m","a","d","o","c","s","-","u","i","/","c","o","m","p","o","n","e","n","t","s","/","t","a","b","s","'",";","\n">>
\* 'import { Badge } from "@/components/ui/badge";\n'
TplLogo ==
    <<"i","m","p","o","r","t"," ","{"," ","B","a","d","g","e"," ","}"," ","f","r","o","m"," ","\"","@","/","c","o","m","p","o","n","e","n","t","s","/","u","i","/","b","a","d","g","e","\"",";","\n">>

TemplateSources ==
    {SourceIndex, SourceTypes, SourceSection, SourceInteractive, SourceTabs,
     SourceLogo}

TemplateContent(source) ==
    CASE source = SourceIndex -> TplIndex
      [] source = SourceTypes -> TplTypes
      [] source = SourceSection -> SegImportCn \o SegCode
      [] source = SourceInteractive -> TplInteractive
      [] source = SourceTabs -> TplTabs
      [] source = SourceLogo -> TplLogo

\* the template root with the sources of `missing` absent
TemplateRoot(missing) ==
    [src \in TemplateSources |->
        IF src \in missing THEN None ELSE Some(TemplateContent(src))]

TemplateRoots ==
    {TemplateRoot(missing) : missing \in
        {m \in SUBSET {SourceTypes, SourceTabs, SourceLogo} : Cardinality(m) <= MaxMissing}}

\* 'branding/nope'
IdUnknownItem ==
    <<"b","r","a","n","d","i","n","g","/","n","o","p","e">>
\* 'branding/logo-with-badge/extra'
IdExtra ==
    <<"b","r","a","n","d","i","n","g","/","l","o","g","o","-","w","i","t","h","-","b","a","d","g","e","/","e","x","t","r","a">>

\* '/logo-with-badge'
ArgNoNamespace == <<"/">> \o NameLogo
\* 'branding/'
ArgNoName == NsBranding \o <<"/">>

AddArguments ==
    {None, Some(<<>>), Some(IdFumadocs), Some(IdBranding), Some(NsBranding),
     Some(ArgNoNamespace), Some(ArgNoName),
     Some(IdNonexistent), Some(IdUnknownItem), Some(IdExtra)}

\* 'branding/nope/extra'
IdExtraUnknown ==
    <<"b","r","a","n","d","i","n","g","/","n","o","p","e","/","e","x","t","r","a">>
\* 'fumadocs/sdk-layout/'
IdTrailingSlash ==
    <<"f","u","m","a","d","o","c","s","/","s","d","k","-","l","a","y","o","u","t","/">>

\* the arguments given to either variant of `add`: more with segments after
\* the name
VariantArguments ==
    AddArguments \cup {Some(IdExtraUnknown), Some(IdTrailingSlash)}

AddConfigs ==
    {NoConfigFile,
     ConfigNoAliases,
     ConfigWith(None, None, Some(AliasTildeUtils)),
     ConfigWith(Some(AliasLibUi), Some(AliasTildeUi), None)}

\* a manifest left by an earlier export of an empty catalog
StaleManifest == Manifest(<<>>)

\* the document an earlier version left for the first item of the catalog
StaleItemDoc == ExportedItem(CatalogItems[1], <<>>)

\* outDir before the first command: absent, or holding an older
\* registry.json, or that and an older document of an item
OutDirs ==
    {OutDirAbsent,
     [dir |-> TRUE, files |-> WriteFile(EmptyFiles, RegistryJson, StaleManifest)],
     [dir |-> TRUE,
      files |-> WriteFile(WriteFile(EmptyFiles, RegistryJson, StaleManifest),
                          ItemJson(CatalogItems[1]), StaleItemDoc)]}

\* the project before the first command: no component yet, or one file of the
\* consumer's own at a path the catalog targets
AddFileSystems ==
    {FsWith({}, {}),
     FsWith({PathResolve(<<CwdText, SrcDir, Slice(DefaultComponentsAlias, 2),
                           TargetSection>>)}, {})}

(***************************************************************************)
(* Inputs of fileTypeForTarget: target paths of up to MaxDepth segments    *)
(* over the directory names the tests look for, names that only hold one   *)
(* of them, and file names.                                                *)
(***************************************************************************)
\* 'app'
NmApp ==
    <<"a","p","p">>
\* 'hooks'
NmHooks ==
    <<"h","o","o","k","s">>
\* 'lib'
NmLib ==
    <<"l","i","b">>
\* 'types'
NmTypes ==
    <<"t","y","p","e","s">>
\* 'components'
NmComponents ==
    <<"c","o","m","p","o","n","e","n","t","s">>
\* 'myhooks'
NmMyHooks ==
    <<"m","y","h","o","o","k","s">>
\* 'libs'
NmLibs ==
    <<"l","i","b","s">>
\* 'x.ts'
NmFile ==
    <<"x",".","t","s">>
\* 'page.tsx'
NmPageTsx ==
    <<"p","a","g","e",".","t","s","x">>
\* 'use-foo.ts'
NmUseFoo ==
    <<"u","s","e","-","f","o","o",".","t","s">>
\* 'utils.ts'
NmUtilsTs ==
    <<"u","t","i","l","s",".","t","s">>
\* 'button.tsx'
NmButtonTsx ==
    <<"b","u","t","t","o","n",".","t","s","x">>

\* <<>> is the empty segment of '//' or of a path that begins or ends with '/'
SegmentNames ==
    {NmApp, NmHooks, NmLib, NmTypes, NmComponents, NmMyHooks, NmLibs, NmFile, <<>>}

SegmentLists ==
    UNION {[1..n -> SegmentNames] : n \in 1..MaxDepth}
      \cup {<<NmApp, NmPageTsx>>, <<NmHooks, NmUseFoo>>, <<NmLib, NmUtilsTs>>,
            <<NmComponents, NmButtonTsx>>}

\* components.json as the registry-connect variant reads it: without
\* `registries`, with the @chris-lally registry, with an empty URL for it, and
\* with another registry only
ConnectConfigs ==
    {NoConfigFile,
     ConfigNoAliases,
     [ConfigNoAliases EXCEPT !.registries =
         Registries(<<RegistryEntry(ChrisLallyRegistry, DEFAULT_REGISTRY_URL)>>)],
     [ConfigNoAliases EXCEPT !.registries =
         Registries(<<RegistryEntry(ChrisLallyRegistry, "")>>)],
     [ConfigNoAliases EXCEPT !.registries =
         Registries(<<RegistryEntry("@acme", "https://acme.example/r/{name}.json")>>)]}

(***************************************************************************)
(* Inputs of slugForItem and titleCase: ids made of words and separators.  *)
(***************************************************************************)
\* 'my'
TokMy ==
    <<"m","y">>
\* 'kit'
TokKit ==
    <<"k","i","t">>
\* '3d'
Tok3d ==
    <<"3","d">>

IdWords == {TokMy, TokKit, Tok3d}
IdSeparators == {"/", "-", "_"}

\* an id of n words: the words and the separators between them
IdShapes ==
    UNION {{[words |-> w, seps |-> p] :
                w \in [1..n -> IdWords], p \in [1..(n - 1) -> IdSeparators]} :
           n \in 1..MaxWords}

\* the text of an id, each separator written as sepText gives it
RECURSIVE IdText(_, _)
IdText(shape, sepText) ==
    IF Len(shape.words) = 1 THEN shape.words[1]
    ELSE shape.words[1] \o <<sepText[shape.seps[1]]>>
            \o IdText([words |-> Tail(shape.words), seps |-> Tail(shape.seps)],
                      sepText)

AsWritten == [c \in IdSeparators |-> c]

(***************************************************************************)
(* Inputs of `registry connect`: the options of the command line and the   *)
(* components.json of the project.                                         *)
(***************************************************************************)
MirrorUrl == "https://mirror.example/r/{name}.json"
AcmeUrl == "https://acme.example/r/{name}.json"

ArgTokens == {"--url", MirrorUrl, ""}

RegistryArgLists == UNION {[1..n -> ArgTokens] : n \in 0..MaxArgs}

\* arguments of `add`: none, a known item, an unknown one
ConnectAddArguments == {None, Some(IdFumadocs), Some(IdBranding), Some(IdUnknownItem)}

ConnectableConfigs ==
    {NoConfigFile,
     ConfigNoAliases,
     [ConfigWith(None, None, Some(AliasTildeUtils)) EXCEPT !.registries =
         Registries(<<RegistryEntry(ChrisLallyRegistry, MirrorUrl),
                      RegistryEntry("@acme", AcmeUrl)>>)],
     [ConfigNoAliases EXCEPT !.registries =
         Registries(<<RegistryEntry(ChrisLallyRegistry, "")>>)],
     [ConfigNoAliases EXCEPT !.registries =
         Registries(<<RegistryEntry("@acme", AcmeUrl)>>)]}

(***************************************************************************)
(* Inputs of the interpolation: components.json with aliases that hold a   *)
(* "$", and the files of the catalog with their templates.                 *)
(***************************************************************************)
\* '$&'
AliasDollarAmp ==
    <<"$","&">>
\* '$$lib/utils'
AliasDollarDollar ==
    <<"$","$","l","i","b","/","u","t","i","l","s">>
\* '$lib/utils'
AliasDollarLib ==
    <<"$","l","i","b","/","u","t","i","l","s">>
\* '$&/c'
AliasDollarAmpC ==
    <<"$","&","/","c">>

InterpolateConfigs ==
    {ConfigWith(c, u, t) :
        c \in {None, Some(AliasLibUi), Some(AliasDollarAmpC)},
        u \in {None, Some(AliasTildeUi)},
        t \in {None, Some(AliasTildeUtils), Some(AliasDollarLib),
               Some(AliasDollarDollar), Some(AliasDollarAmp)}}

CatalogFiles ==
    UNION {{CatalogItems[i].files[k] : k \in 1..Len(CatalogItems[i].files)} :
              i \in 1..Len(CatalogItems)}

(***************************************************************************)
(* The parts of the state a specification does not use stay as they are    *)
(* here.                                                                   *)
(***************************************************************************)
RwIdle ==
    /\ rwContent = <<>>
    /\ rwMapping = NoMapping
    /\ rwResult = <<>>
    /\ rwPc = "idle"

RaIdle ==
    /\ raResult = NotCalled
    /\ raPc = "idle"

FsIdle ==
    /\ files = EmptyFiles
    /\ dirs = {<<>>}
    /\ fs0 = [files |-> EmptyFiles, dirs |-> {<<>>}]

WimAllIdle ==
    /\ wim = [c \in Callers |-> WimIdle]
    /\ wimLog = <<>>

\* the catalog as the module sets it up, no call made
CatInit ==
    /\ items = CatalogItems
    /\ catLog = <<>>

AddIdle ==
    /\ templates = TemplateRoot({})
    /\ run = RunIdle
    /\ runs = 0
    /\ edits = 0

FtNotCalled == ft = FtIdle

ExpNotRun ==
    /\ exp = ExpIdle
    /\ outFs = OutDirAbsent

(***************************************************************************)
(* Specification of the rewriter alone: the inputs are drawn at Init, the  *)
(* one action is a call of applyImportReplacements.                        *)
(***************************************************************************)
InitRewrite ==
    /\ rwContent \in Texts
    /\ rwMapping \in Mappings
    /\ rwResult = <<>>
    /\ rwPc = "ready"
    /\ config = NoConfigFile
    /\ RaIdle
    /\ FsIdle
    /\ WimAllIdle
    /\ CatInit
    /\ AddIdle
    /\ FtNotCalled
    /\ ExpNotRun

CallApplyImportReplacements ==
    /\ rwPc = "ready"
    /\ rwResult' = applyImportReplacements(rwContent, rwMapping)
    /\ rwPc' = "done"
    /\ UNCHANGED <<rwContent, rwMapping, RwFrame>>

NextRewrite == CallApplyImportReplacements

SpecRewrite == InitRewrite /\ [][NextRewrite]_vars

(***************************************************************************)
(* Specification of the alias resolver alone: components.json is drawn at  *)
(* Init, the one action is a call of readAliasContext(process.cwd()).      *)
(***************************************************************************)
InitAlias ==
    /\ config \in Configs
    /\ raResult = NotCalled
    /\ raPc = "ready"
    /\ RwIdle
    /\ FsIdle
    /\ WimAllIdle
    /\ CatInit
    /\ AddIdle
    /\ FtNotCalled
    /\ ExpNotRun

CallReadAliasContext ==
    /\ raPc = "ready"
    /\ raResult' = readAliasContext(config, CwdText)
    /\ raPc' = "done"
    /\ UNCHANGED <<config, RaFrame>>

NextAlias == CallReadAliasContext

SpecAlias == InitAlias /\ [][NextAlias]_vars

(***************************************************************************)
(* Specification of the materializer alone: one caller calls               *)
(* writeIfMissing again and again, each call running to its return.        *)
(***************************************************************************)
InitMaterialize ==
    /\ fs0 \in InitialFileSystems
    /\ files = fs0.files
    /\ dirs = fs0.dirs
    /\ WimAllIdle
    /\ config = NoConfigFile
    /\ RwIdle
    /\ RaIdle
    /\ CatInit
    /\ AddIdle
    /\ FtNotCalled
    /\ ExpNotRun

NextMaterialize ==
    \/ \E path \in WimPaths, content \in WimContents : WimCall(1, path, content)
    \/ WimMkdir(1)
    \/ WimWrite(1)

SpecMaterialize == InitMaterialize /\ [][NextMaterialize]_vars

(***************************************************************************)
(* Specification of concurrent invocations: two callers call               *)
(* writeIfMissing in the same project, their steps interleaved at the      *)
(* awaits.                                                                 *)
(***************************************************************************)
InitRace ==
    /\ fs0 \in RaceFileSystems
    /\ files = fs0.files
    /\ dirs = fs0.dirs
    /\ WimAllIdle
    /\ config = NoConfigFile
    /\ RwIdle
    /\ RaIdle
    /\ CatInit
    /\ AddIdle
    /\ FtNotCalled
    /\ ExpNotRun

NextRace ==
    \/ \E c \in Callers, path \in WimPaths, content \in WimContents :
           WimCall(c, path, content)
    \/ \E c \in Callers : WimMkdir(c)
    \/ \E c \in Callers : WimWrite(c)

SpecRace == InitRace /\ [][NextRace]_vars

(***************************************************************************)
(* Specification of the catalog alone: listRegistryItems and               *)
(* findRegistryItem are called in any order, find with the ids below.      *)
(***************************************************************************)
InitCatalog ==
    /\ CatInit
    /\ config = NoConfigFile
    /\ RwIdle
    /\ RaIdle
    /\ FsIdle
    /\ WimAllIdle
    /\ AddIdle
    /\ FtNotCalled
    /\ ExpNotRun

NextCatalog ==
    \/ CallListRegistryItems
    \/ \E id \in ProbeIds : CallFindRegistryItem(id)

SpecCatalog == InitCatalog /\ [][NextCatalog]_vars

(***************************************************************************)
(* Specification of fileTypeForTarget alone: the target is drawn at Init,  *)
(* the one action is the call.                                             *)
(***************************************************************************)
InitClassify ==
    /\ \E segs \in SegmentLists :
          ft = [pc |-> "ready", segs |-> segs, target |-> Join(segs),
                result |-> "none"]
    /\ config = NoConfigFile
    /\ RwIdle
    /\ RaIdle
    /\ FsIdle
    /\ WimAllIdle
    /\ CatInit
    /\ AddIdle
    /\ ExpNotRun

CallFileTypeForTarget ==
    /\ ft.pc = "ready"
    /\ ft' = [ft EXCEPT !.pc = "done", !.result = fileTypeForTarget(ft.target)]
    /\ UNCHANGED FtFrame

NextClassify == CallFileTypeForTarget

SpecClassify == InitClassify /\ [][NextClassify]_vars

(***************************************************************************)
(* Specification of the registry-connect variant: `registry connect` and   *)
(* `add` commands run one after the other in one project, the consumer     *)
(* changing components.json between them.                                  *)
(***************************************************************************)
InitConnect ==
    /\ config \in ConnectableConfigs
    /\ run = RunIdle
    /\ runs = 0
    /\ edits = 0
    /\ templates = TemplateRoot({})
    /\ FsIdle
    /\ CatInit
    /\ RwIdle
    /\ RaIdle
    /\ WimAllIdle
    /\ FtNotCalled
    /\ ExpNotRun

NextConnect ==
    \/ \E registryArgs \in RegistryArgLists : ConnectStart(registryArgs)
    \/ ConnectRead
    \/ ConnectWrite
    \/ \E argument \in ConnectAddArguments : ConnectAddStart(argument)
    \/ ConnectAddSpawn
    \/ \E cfg \in ConnectableConfigs : ConsumerSetsConfig(cfg)

SpecConnect == InitConnect /\ [][NextConnect]_vars

(***************************************************************************)
(* Specification of the rewriting of one catalog file, as the loop of      *)
(* applyRegistryItem does it (apply.ts:34, 45-51): the aliases are read    *)
(* from components.json, the file's replacement specifiers are             *)
(* interpolated, and the template's imports are rewritten.                 *)
(***************************************************************************)
InitInterpolate ==
    /\ config \in InterpolateConfigs
    /\ \E file \in CatalogFiles :
          /\ rwContent = TemplateContent(file.source)
          /\ rwMapping = file.replaceImports
    /\ rwResult = <<>>
    /\ rwPc = "template"
    /\ raResult = NotCalled
    /\ raPc = "ready"
    /\ FsIdle
    /\ WimAllIdle
    /\ CatInit
    /\ AddIdle
    /\ FtNotCalled
    /\ ExpNotRun

\* file.replaceImports ? Object.fromEntries(... interpolateTargetPath ...)
\*                     : undefined
InterpolateReplaceImports ==
    /\ raPc = "done"
    /\ raResult.error = "none"
    /\ rwPc = "template"
    /\ rwMapping' = InterpolatedImports(rwMapping, raResult.aliases)
    /\ rwPc' = "ready"
    /\ UNCHANGED <<rwContent, rwResult, RwFrame>>

NextInterpolate ==
    \/ CallReadAliasContext
    \/ InterpolateReplaceImports
    \/ CallApplyImportReplacements

SpecInterpolate == InitInterpolate /\ [][NextInterpolate]_vars

(***************************************************************************)
(* Specification of the `add` command: commands run one after the other    *)
(* in a consumer project; between commands the consumer may edit a file    *)
(* or components.json.                                                     *)
(***************************************************************************)
Init ==
    /\ config \in AddConfigs
    /\ fs0 \in AddFileSystems
    /\ files = fs0.files
    /\ dirs = fs0.dirs
    /\ templates \in TemplateRoots
    /\ run = RunIdle
    /\ runs = 0
    /\ edits = 0
    /\ CatInit
    /\ RwIdle
    /\ RaIdle
    /\ WimAllIdle
    /\ FtNotCalled
    /\ ExpNotRun

Next ==
    \/ \E argument \in AddArguments : AddStart(argument)
    \/ ApplyReadConfig
    \/ ApplyReadTemplate
    \/ ApplyMkdir
    \/ ApplyWrite
    \/ ApplyInstall
    \/ \E path \in DOMAIN files : ConsumerEditsFile(path, ConsumerContent)
    \/ \E cfg \in AddConfigs : ConsumerSetsConfig(cfg)

Spec == Init /\ [][Next]_vars

(***************************************************************************)
(* Specification of the `registry export` command: exports run one after   *)
(* the other into the same outDir, in a project whose components.json is   *)
(* any of the consumer configurations and may change between exports.      *)
(***************************************************************************)
InitExport ==
    /\ config \in AddConfigs
    /\ templates \in TemplateRoots
    /\ outFs \in OutDirs
    /\ exp = ExpIdle
    /\ run = RunIdle
    /\ runs = 0
    /\ edits = 0
    /\ FsIdle
    /\ CatInit
    /\ RwIdle
    /\ RaIdle
    /\ WimAllIdle
    /\ FtNotCalled

NextExport ==
    \/ ExportStart
    \/ ExportRead
    \/ ExportMkdir
    \/ ExportWrite
    \/ \E cfg \in AddConfigs : ConsumerSetsConfig(cfg)

SpecExport == InitExport /\ [][NextExport]_vars

(***************************************************************************)
(* Specification of the naming of exported items: slugForItem and          *)
(* titleCase are called for an id drawn at Init, and one export runs over  *)
(* the catalog with a complete template root.                              *)
(***************************************************************************)
InitNaming ==
    /\ \E shape \in IdShapes :
          ft = [pc |-> "ready", segs |-> shape,
                target |-> IdText(shape, AsWritten), result |-> "none"]
    /\ config = NoConfigFile
    /\ templates = TemplateRoot({})
    /\ outFs = OutDirAbsent
    /\ exp = ExpIdle
    /\ run = RunIdle
    /\ runs = 0
    /\ edits = 0
    /\ FsIdle
    /\ CatInit
    /\ RwIdle
    /\ RaIdle
    /\ WimAllIdle

\* const slug = slugForItem(item); ... title: titleCase(slug)
CallSlugAndTitle ==
    /\ ft.pc = "ready"
    /\ LET slug == slugForItem([id |-> ft.target]) IN
       ft' = [ft EXCEPT !.pc = "done",
                        !.result = [name |-> slug, title |-> titleCase(slug)]]
    /\ UNCHANGED FtFrame

NextNaming ==
    \/ CallSlugAndTitle
    \/ ExportStart
    \/ ExportRead
    \/ ExportMkdir
    \/ ExportWrite

SpecNaming == InitNaming /\ [][NextNaming]_vars

(***************************************************************************)
(* Specification of a session: `add` and `registry export` commands run    *)
(* one after the other in one project with a complete template root, the   *)
(* consumer changing files and components.json between them.               *)
(***************************************************************************)
InitSession ==
    /\ config \in AddConfigs
    /\ fs0 = FsWith({}, {})
    /\ files = fs0.files
    /\ dirs = fs0.dirs
    /\ templates = TemplateRoot({})
    /\ outFs = OutDirAbsent
    /\ exp = ExpIdle
    /\ run = RunIdle
    /\ runs = 0
    /\ edits = 0
    /\ CatInit
    /\ RwIdle
    /\ RaIdle
    /\ WimAllIdle
    /\ FtNotCalled

NextSession ==
    \/ Next
    \/ NextExport

SpecSession == InitSession /\ [][NextSession]_vars

(***************************************************************************)
(* Specification of the two variants of `add`: commands of either variant  *)
(* run one after the other in one project with a complete template root,   *)
(* the consumer changing components.json between them.                     *)
(***************************************************************************)
InitAddVariants ==
    /\ config \in ConnectConfigs
    /\ fs0 = FsWith({}, {})
    /\ files = fs0.files
    /\ dirs = fs0.dirs
    /\ templates = TemplateRoot({})
    /\ run = RunIdle
    /\ runs = 0
    /\ edits = 0
    /\ CatInit
    /\ RwIdle
    /\ RaIdle
    /\ WimAllIdle
    /\ FtNotCalled
    /\ ExpNotRun

NextAddVariants ==
    \/ \E argument \in VariantArguments : AddStart(argument)
    \/ ApplyReadConfig
    \/ ApplyReadTemplate
    \/ ApplyMkdir
    \/ ApplyWrite
    \/ ApplyInstall
    \/ \E argument \in VariantArguments : ConnectAddStart(argument)
    \/ ConnectAddSpawn
    \/ \E cfg \in ConnectConfigs : ConsumerSetsConfig(cfg)

SpecAddVariants == InitAddVariants /\ [][NextAddVariants]_vars

(***************************************************************************)
(* Reference for the rewriter claims: the rewrite with the key matched     *)
(* literally (every key character escaped).                                *)
(***************************************************************************)
LiteralPattern(from) ==
    [i \in 1..Len(FromKw) |-> LitAtom(FromKw[i])]
        \o <<QuoteAtom>>
        \o [i \in 1..Len(from) |-> EscapedKeyAtom(from[i])]
        \o <<QuoteAtom>>

RECURSIVE LiteralEntries(_, _, _)
LiteralEntries(next, entries, k) ==
    IF k > Len(entries) THEN next
    ELSE LiteralEntries(
            RegexReplaceAll(next, LiteralPattern(entries[k].from),
                            ImportReplacement(entries[k].to)),
            entries, k + 1)

\* whether text holds an import whose quoted specifier is exactly `key`
HasImportOf(text, key) ==
    \E i \in 1..Len(text) : MatchAt(text, LiteralPattern(key), i)

\* C4 (as claimed): every import of a mapping key is replaced by an import of
\* its replacement, at every occurrence, and all other text is unchanged: the
\* result is the literal rewrite of the input.
C4_RewritesExactlyTheKeyImports ==
    rwPc = "done" =>
        rwResult = (IF rwMapping.defined
                    THEN LiteralEntries(rwContent, rwMapping.entries, 1)
                    ELSE rwContent)

\* C5 (as claimed): a key with regular-expression metacharacters matches only
\* specifiers equal to it character for character: a source holding no import
\* of any mapping key is returned unchanged.
C5_OnlyExactSpecifiersRewritten ==
    (/\ rwPc = "done"
     /\ \A k \in 1..Len(rwMapping.entries) :
            ~HasImportOf(rwContent, rwMapping.entries[k].from))
        => rwResult = rwContent

\* C6: with the mapping absent (undefined) and with the mapping empty,
\* applyImportReplacements returns its input unchanged.
C6_NoMappingIsNoOp ==
    (rwPc = "done" /\ (~rwMapping.defined \/ rwMapping.entries = <<>>))
        => rwResult = rwContent

\* C6 witness: the call returned for an empty mapping and for a source that
\* holds an import another mapping would rewrite.
C6_Witness ==
    /\ rwPc = "done"
    /\ rwMapping = MappingOf(<<>>)
    /\ HasImportOf(rwContent, KeyCn)
    /\ rwResult = rwContent

(***************************************************************************)
(* Claims about the alias resolver.                                        *)
(***************************************************************************)
\* 'proj'
NameProj ==
    <<"p","r","o","j">>
\* 'components'
NameComponents ==
    <<"c","o","m","p","o","n","e","n","t","s">>
\* 'lib'
NameLib ==
    <<"l","i","b">>
\* 'ui'
NameUi ==
    <<"u","i">>
\* 'opt'
NameOpt ==
    <<"o","p","t">>
\* 'shared'
NameShared ==
    <<"s","h","a","r","e","d">>

\* the value the claim gives a field: configured if present, else its default
ConfiguredOr(present, value, dflt) == IF present THEN value[1] ELSE dflt

\* C7: readAliasContext defaults each alias independently: a field present in
\* components.json keeps its configured value, an absent one takes
\* "@/components", "@/components/ui", "@/lib/utils" respectively; with no
\* `aliases` field the result is exactly the three defaults.
C7_AliasesDefaultIndependently ==
    (raPc = "done" /\ config.exists) =>
        /\ raResult.error = "none"
        /\ raResult.aliases.componentsAlias =
              ConfiguredOr(config.hasAliases /\ Len(config.components) = 1,
                           config.components, DefaultComponentsAlias)
        /\ raResult.aliases.uiAlias =
              ConfiguredOr(config.hasAliases /\ Len(config.ui) = 1,
                           config.ui, DefaultUiAlias)
        /\ raResult.aliases.utilsAlias =
              ConfiguredOr(config.hasAliases /\ Len(config.utils) = 1,
                           config.utils, DefaultUtilsAlias)
        /\ (~config.hasAliases =>
              raResult.aliases =
                  [componentsAlias |-> <<"@","/","c","o","m","p","o","n","e","n","t","s">>,
                   uiAlias |-> <<"@","/","c","o","m","p","o","n","e","n","t","s","/","u","i">>,
                   utilsAlias |-> <<"@","/","l","i","b","/","u","t","i","l","s">>])

\* C7 witness: the call returned for a components.json that sets the
\* components and utils aliases and leaves the ui alias out.
C7_Witness ==
    /\ raPc = "done"
    /\ config = ConfigWith(Some(AliasLibUi), None, Some(AliasTildeUtils))
    /\ raResult.aliases =
          [componentsAlias |-> AliasLibUi,
           uiAlias |-> DefaultUiAlias,
           utilsAlias |-> AliasTildeUtils]

\* the rule of the claim: "@/<rest>" is <cwd>/src/<rest>, any other alias is
\* resolved against cwd
RootRule(alias) ==
    IF StartsWith(alias, <<"@", "/">>)
    THEN PathResolve(<<CwdText, SrcDir, Slice(alias, 2)>>)
    ELSE PathResolve(<<CwdText, alias>>)

\* C8: the components root is the rule applied to the resolved components
\* alias: "@/<rest>" gives <cwd>/src/<rest>, every other alias is resolved as a
\* path relative to cwd (path.resolve: an absolute alias is its own path).
C8_ComponentsRootRule ==
    (raPc = "done" /\ raResult.error = "none") =>
        LET a == raResult.aliases.componentsAlias
            root == raResult.componentsRoot
        IN  /\ root = RootRule(a)
            /\ (a = DefaultComponentsAlias =>
                    root = (<<NameProj, SrcDir, NameComponents>>))
            /\ (a = AliasAtUp => root = (<<NameProj, NameUi>>))
            /\ (a = AliasLibUi => root = (<<NameProj, NameLib, NameUi>>))
            /\ (a = AliasDotUi => root = (<<NameProj, NameUi>>))
            /\ (a = AliasUp => root = (<<NameShared, NameUi>>))
            /\ (a = AliasAbs => root = (<<NameOpt, NameUi>>))

\* C8 witness: the call returned a root for an alias of each kind; here the
\* configured alias 'lib/ui', resolved under cwd without "src".
C8_Witness ==
    /\ raPc = "done"
    /\ raResult.error = "none"
    /\ raResult.aliases.componentsAlias = AliasLibUi
    /\ raResult.componentsRoot = (<<NameProj, NameLib, NameUi>>)

(***************************************************************************)
(* Claims about the materializer.                                          *)
(***************************************************************************)
\* the returned calls on one path, in order
CallsOn(path) == SelectSeq(wimLog, LAMBDA e : e.path = path)

\* nothing was at the path at Init
InitiallyAbsent(path) ==
    path \notin DOMAIN fs0.files /\ path \notin fs0.dirs

\* C2: on an initially absent path the first writeIfMissing returns "created",
\* every later one returns "skipped" (a normal return, no error), and the file
\* holds the first call's content whatever content the later calls passed.
C2_CreatedThenSkipped ==
    \A path \in WimPaths :
        LET calls == CallsOn(path) IN
        (InitiallyAbsent(path) /\ Len(calls) >= 1) =>
            /\ calls[1].result = "created"
            /\ \A k \in 2..Len(calls) : calls[k].result = "skipped"
            /\ path \in DOMAIN files
            /\ files[path] = calls[1].content

\* C2 witness: two calls on an initially absent path returned, the second with
\* a content other than the first's.
C2_Witness ==
    \E path \in WimPaths :
        LET calls == CallsOn(path) IN
        /\ InitiallyAbsent(path)
        /\ Len(calls) >= 2
        /\ calls[2].content # calls[1].content
        /\ calls[2].result = "skipped"
        /\ files[path] = calls[1].content

\* C3: when nothing is at `path`, writeIfMissing creates every missing
\* ancestor directory, writes a file at `path` holding exactly `content` and
\* returns "created"; and whenever it returns "created" it has written the
\* file.  (Stated of the call that has just returned.)
C3_CreatesFileAndAncestors ==
    wim[1].pc = "done" =>
        LET w == wim[1]
            absentBefore ==
                /\ InitiallyAbsent(w.path)
                /\ \A j \in 1..(Len(wimLog) - 1) : wimLog[j].path # w.path
            written ==
                /\ w.path \in DOMAIN files
                /\ files[w.path] = w.content
        IN  /\ absentBefore =>
                (w.result = "created" /\ written /\ Ancestors(w.path) \subseteq dirs)
            /\ w.result = "created" => written

\* C3 witness: a call returned "created" for a path some ancestor directory of
\* which did not exist at Init.
C3_Witness ==
    /\ wim[1].pc = "done"
    /\ wim[1].result = "created"
    /\ \E d \in Ancestors(wim[1].path) : d \notin fs0.dirs /\ d \in dirs
    /\ files[wim[1].path] = wim[1].content

(***************************************************************************)
(* Claims about the catalog.                                               *)
(***************************************************************************)
IdsOf(its) == [i \in 1..Len(its) |-> its[i].id]

NoDuplicateIds(its) ==
    \A i, j \in 1..Len(its) : its[i].id = its[j].id => i = j

\* C10: every listRegistryItems call returns the same items in the same order
\* (the two catalog items, fumadocs/sdk-layout then branding/logo-with-badge),
\* no two with the same id; findRegistryItem(id) returns the listed item whose
\* id is exactly `id` when there is one and null otherwise (a normal return).
C10_CatalogListAndFind ==
    \A i \in 1..Len(catLog) :
        LET call == catLog[i] IN
        /\ call.op = "list" =>
              /\ \A j \in 1..Len(catLog) :
                    catLog[j].op = "list" => catLog[j].result = call.result
              /\ IdsOf(call.result) = <<IdFumadocs, IdBranding>>
              /\ NoDuplicateIds(call.result)
        /\ call.op = "find" =>
              /\ (call.id \in {IdFumadocs, IdBranding}) =>
                    /\ Len(call.result) = 1
                    /\ call.result[1].id = call.id
                    /\ \E k \in 1..Len(CatalogItems) :
                          CatalogItems[k] = call.result[1]
              /\ (call.id \notin {IdFumadocs, IdBranding}) => call.result = <<>>

\* C10 witness: a nonexistent id was looked up and gave null, an existing id
\* was found, and the catalog was listed.
C10_Witness ==
    /\ \E i, j \in 1..Len(catLog) :
          /\ i < j
          /\ catLog[i].op = "find" /\ catLog[i].id = IdNonexistent
          /\ catLog[i].result = <<>>
          /\ catLog[j].op = "find" /\ catLog[j].id = IdBranding
          /\ catLog[j].result = <<brandingLogoWithBadgeItem>>
    /\ \E i \in 1..Len(catLog) : catLog[i].op = "list"

(***************************************************************************)
(* Claims about the `add` command.                                         *)
(***************************************************************************)
\* a step of an `add` command: it starts one, or one is in progress
AddStep == runs' # runs \/ run.pc \notin {"idle", "exited"}

\* C1: whatever the items and the alias configuration, no step of an `add`
\* command changes or removes a file that exists: every file there before the
\* step is there after it with the same content.
C1_AddNeverOverwrites ==
    [][AddStep =>
          \A p \in DOMAIN files : p \in DOMAIN files' /\ files'[p] = files[p]]_vars

\* C1 witness: an `add` ran to its end in a project where a target path held
\* a file of the consumer's; it created other files, skipped that one, and
\* the file still holds the consumer's content.
C1_Witness ==
    /\ run.pc = "exited"
    /\ run.error = "none"
    /\ \E i, j \in 1..Len(run.out) :
          /\ run.out[i].kind = "Created"
          /\ run.out[j].kind = "Skipped"
          /\ files[run.out[j].path] = ConsumerContent

\* C9: an `add` of a known item started while components.json is absent
\* fails at once with the missing-configuration error: the command ends
\* without a template read, a file or directory written, or an install spawned.
C9_MissingConfigAborts ==
    [][(runs' # runs /\ run'.lookup = "found" /\ ~config.exists) =>
          /\ run'.pc = "exited"
          /\ run'.error = "missing-config"
          /\ run'.reads = 0
          /\ run'.out = <<>>
          /\ run'.spawns = <<>>
          /\ files' = files
          /\ dirs' = dirs]_vars

\* C9 witness: an `add` of a known item has ended on the missing-configuration
\* error, components.json being absent.
C9_Witness ==
    /\ run.pc = "exited"
    /\ run.lookup = "found"
    /\ run.error = "missing-config"
    /\ ~config.exists
    /\ run.reads = 0


(***************************************************************************)
(* Claims about fileTypeForTarget.  The expected type is stated over the   *)
(* segments the target was built from: a directory of the path is a        *)
(* segment other than the last.                                            *)
(***************************************************************************)
Directories(segs) == {segs[i] : i \in 1..(Len(segs) - 1)}

ExpectedFileType(segs) ==
    IF Len(segs) >= 2 /\ segs[1] = NmApp THEN "registry:page"
    ELSE IF NmHooks \in Directories(segs) THEN "registry:hook"
    ELSE IF NmLib \in Directories(segs) \/ NmTypes \in Directories(segs)
         THEN "registry:lib"
    ELSE "registry:component"

\* C14: fileTypeForTarget classifies a target by the first rule that applies:
\* page when the path begins with the directory app, hook when it has a
\* directory hooks, library when it has a directory lib or types, else
\* component; app/page.tsx is a page, hooks/use-foo.ts a hook, lib/utils.ts a
\* library and components/button.tsx a component.
C14_FileTypeByFirstRule ==
    ft.pc = "done" =>
        /\ ft.result = ExpectedFileType(ft.segs)
        /\ ft.segs = <<NmApp, NmPageTsx>> => ft.result = "registry:page"
        /\ ft.segs = <<NmHooks, NmUseFoo>> => ft.result = "registry:hook"
        /\ ft.segs = <<NmLib, NmUtilsTs>> => ft.result = "registry:lib"
        /\ ft.segs = <<NmComponents, NmButtonTsx>> => ft.result = "registry:component"

\* C14 witness: a path with both a hooks and a lib directory was classified
\* as a hook, the earlier rule winning
C14_Witness ==
    /\ ft.pc = "done"
    /\ ft.segs = <<NmLib, NmHooks, NmFile>>
    /\ ft.result = "registry:hook"

(***************************************************************************)
(* Claims about the `registry export` command.                             *)
(***************************************************************************)
\* some file of some catalog item has no source under the template root
SomeSourceMissing ==
    \E i \in 1..Len(items) : \E k \in 1..Len(items[i].files) :
        templates[items[i].files[k].source] = None

Written(e) == {e.written[j] : j \in 1..Len(e.written)}

\* C11: when a source of any file of any item is missing under the template
\* root, no step of exportRegistry writes registry.json (one already in
\* outDir stays as it is), and the command ends in the fatal error.
C11_MissingSourceIsFatal ==
    [][SomeSourceMissing =>
          /\ RegistryJson \notin Written(exp')
          /\ (RegistryJson \in DOMAIN outFs'.files) = (RegistryJson \in DOMAIN outFs.files)
          /\ RegistryJson \in DOMAIN outFs.files =>
                outFs'.files[RegistryJson] = outFs.files[RegistryJson]
          /\ exp'.pc = "exited" => exp'.error = "missing-source"]_vars

\* C11 witness: an export failed on a missing source after it wrote the file
\* of an earlier item, an older registry.json staying as it was
C11_Witness ==
    /\ exp.pc = "exited"
    /\ exp.error = "missing-source"
    /\ exp.written # <<>>
    /\ RegistryJson \in DOMAIN outFs.files
    /\ outFs.files[RegistryJson] = StaleManifest

\* C12: in every state in which the running (or last) export has written
\* registry.json, the manifest lists every catalog item and the <slug>.json of
\* each item it lists was written earlier in that run.
C12_ItemFilesBeforeManifest ==
    \A j \in 1..Len(exp.written) :
        exp.written[j] = RegistryJson =>
            LET manifest == outFs.files[RegistryJson] IN
            /\ Len(manifest.items) = Len(items)
            /\ \A k \in 1..Len(manifest.items) :
                  /\ \E i \in 1..(j - 1) :
                        exp.written[i] = manifest.items[k].name \o JsonExt
                  /\ manifest.items[k].name \o JsonExt \in DOMAIN outFs.files

\* C12 witness: an export has written registry.json, as the last of its files
C12_Witness ==
    /\ Len(exp.written) = Len(items) + 1
    /\ exp.written[Len(exp.written)] = RegistryJson

\* 'fumadocs-sdk-layout.json'
FumadocsJson ==
    <<"f","u","m","a","d","o","c","s","-","s","d","k","-","l","a","y","o","u","t",".","j","s","o","n">>
\* 'branding-logo-with-badge.json'
BrandingJson ==
    <<"b","r","a","n","d","i","n","g","-","l","o","g","o","-","w","i","t","h","-","b","a","d","g","e",".","j","s","o","n">>

\* the paths of the files of a document, in order
PathsOf(doc) == [k \in 1..Len(doc.files) |-> doc.files[k].path]

\* C13: a successful export has written fumadocs-sdk-layout.json,
\* branding-logo-with-badge.json and registry.json, each once and nothing
\* else, and the manifest lists for each item the file paths of the item's own
\* document, in the same order.
C13_ExportWritesItemsAndManifest ==
    (exp.pc = "exited" /\ exp.error = "none") =>
        /\ Written(exp) = {FumadocsJson, BrandingJson, RegistryJson}
        /\ Len(exp.written) = 3
        /\ Written(exp) \subseteq DOMAIN outFs.files
        /\ LET manifest == outFs.files[RegistryJson] IN
           /\ Len(manifest.items) = 2
           /\ manifest.items[1].name \o JsonExt = FumadocsJson
           /\ manifest.items[2].name \o JsonExt = BrandingJson
           /\ PathsOf(manifest.items[1]) = PathsOf(outFs.files[FumadocsJson])
           /\ PathsOf(manifest.items[2]) = PathsOf(outFs.files[BrandingJson])
           /\ Len(PathsOf(manifest.items[1])) = 5
           /\ Len(PathsOf(manifest.items[2])) = 1

\* C13 witness: an export ended without error
C13_Witness ==
    /\ exp.pc = "exited"
    /\ exp.error = "none"
    /\ exp.reads = 6

(***************************************************************************)
(* Claims about the exit code of `add`, for both variants of runCli.       *)
(***************************************************************************)
\* the command that starts in this step ends in it with exit code 1, having
\* written nothing and spawned nothing
FailsAtOnce ==
    /\ run'.pc = "exited"
    /\ run'.exitCode = 1
    /\ run'.spawns = <<>>
    /\ run'.out = <<>>
    /\ files' = files
    /\ dirs' = dirs

\* C15: `add` sets a non-zero exit code when the item argument is missing,
\* when it has no namespace or no name part, when the namespace is unknown,
\* when the item is unknown in a known namespace, and when components.json is
\* missing; in the first four cases no file is written and nothing is spawned.
C15_AddErrorsExitNonZero ==
    [][runs' # runs =>
          /\ run'.argument \in {None, Some(<<>>)} => FailsAtOnce
          /\ run'.argument \in {Some(NsBranding), Some(ArgNoNamespace), Some(ArgNoName)}
                => FailsAtOnce
          /\ run'.argument = Some(IdNonexistent) => FailsAtOnce
          /\ run'.argument = Some(IdUnknownItem) => FailsAtOnce
          /\ (run'.argument \in {Some(IdFumadocs), Some(IdBranding)} /\ ~config.exists)
                => (run'.pc = "exited" /\ ProcessExitCode(run') # 0)]_vars

\* C15 witness: a second command, for an unknown item of a known namespace,
\* ended with exit code 1
C15_Witness ==
    /\ runs = 2
    /\ run.pc = "exited"
    /\ run.argument = Some(IdUnknownItem)
    /\ run.lookup = "unknown-item"
    /\ run.exitCode = 1

\* C16 as stated: a tool `add` invoked that exited with a non-zero status makes
\* that status the exit code of the command, and the tool is invoked at most
\* once per command.
C16_ToolFailurePropagates ==
    /\ Len(run.spawns) <= 1
    /\ run.pc = "exited" =>
          \A k \in 1..Len(run.spawns) :
              run.spawns[k].status # 0 => ProcessExitCode(run) = run.spawns[k].status

\* C16 amended: a non-zero status of the copy tool (shadcn add, registry-connect
\* variant) becomes the exit code of the command; a non-zero status of the
\* dependency install (applyRegistryItem) is only reported and the command ends
\* with exit code 0; either tool is invoked at most once per command.
C16_CopyToolPropagatesInstallReports ==
    /\ Len(run.spawns) <= 1
    /\ run.pc = "exited" =>
          \A k \in 1..Len(run.spawns) :
              run.spawns[k].status # 0 =>
                  /\ run.spawns[k].tool = "shadcn add" =>
                        (run.exitCode = run.spawns[k].status /\ run.error = "none")
                  /\ run.spawns[k].tool = "install" =>
                        (run.exitCode = 0 /\ run.error = "none")

\* C16 witness: the dependency install of an `add` failed and the command
\* ended with exit code 0
C16_Witness ==
    /\ run.pc = "exited"
    /\ Len(run.spawns) = 1
    /\ run.spawns[1].tool = "install"
    /\ run.spawns[1].status = 1
    /\ ProcessExitCode(run) = 0

(***************************************************************************)
(* Claims about the aliases the export and `add` interpolate from.  The    *)
(* expected texts are written out: the templates of sdk-section.tsx and    *)
(* sdk-function-page-interactive.tsx with their imports rewritten.         *)
(***************************************************************************)
\* "import { cn } from '"
ImportCnHead ==
    <<"i","m","p","o","r","t"," ","{"," ","c","n"," ","}"," ","f","r","o","m"," ","'">>
\* "import { PackageManagerTabs } from '"
ImportTabsHead ==
    <<"i","m","p","o","r","t"," ","{"," ","P","a","c","k","a","g","e","M","a","n","a","g","e","r","T","a","b","s"," ","}"," ","f","r","o","m"," ","'">>
\* "import { Combobox } from '"
ImportComboboxHead ==
    <<"i","m","p","o","r","t"," ","{"," ","C","o","m","b","o","b","o","x"," ","}"," ","f","r","o","m"," ","'">>
\* "';\n"
ImportEnd ==
    <<"'",";","\n">>
\* '/mdx/package-manager-tabs'
TabsSuffix ==
    <<"/","m","d","x","/","p","a","c","k","a","g","e","-","m","a","n","a","g","e","r","-","t","a","b","s">>
\* '/combobox'
ComboboxSuffix ==
    <<"/","c","o","m","b","o","b","o","x">>
\* '@/components'
LitComponents ==
    <<"@","/","c","o","m","p","o","n","e","n","t","s">>
\* '@/components/ui'
LitUi ==
    <<"@","/","c","o","m","p","o","n","e","n","t","s","/","u","i">>
\* '@/lib/utils'
LitUtils ==
    <<"@","/","l","i","b","/","u","t","i","l","s">>

\* sdk-section.tsx with cn imported from utils
SectionWith(utils) == ImportCnHead \o utils \o ImportEnd \o SegCode

\* sdk-function-page-interactive.tsx with its two imports under the aliases
InteractiveWith(components, ui) ==
    ImportTabsHead \o components \o TabsSuffix \o ImportEnd
      \o ImportComboboxHead \o ui \o ComboboxSuffix \o ImportEnd

\* the alias components.json sets, or the default
Configured(cfg, field, dflt) ==
    IF cfg.hasAliases /\ cfg[field] # <<>> THEN cfg[field][1] ELSE dflt

\* C17: whatever components.json holds, the document an export writes for
\* fumadocs/sdk-layout has its imports rewritten to @/lib/utils, @/components
\* and @/components/ui; the same files written by `add` have them rewritten to
\* the aliases components.json resolves to.
C17_ExportUsesDefaultsAddUsesConsumer ==
    [][/\ (exp.pc = "write" /\ exp.wname = FumadocsJson) =>
             /\ outFs'.files[FumadocsJson].files[3].content = SectionWith(LitUtils)
             /\ outFs'.files[FumadocsJson].files[4].content =
                    InteractiveWith(LitComponents, LitUi)
       /\ (run.pc = "write" /\ CurrentFile.target = TargetSection) =>
             files'[run.wpath] = SectionWith(Configured(config, "utils", LitUtils))
       /\ (run.pc = "write" /\ CurrentFile.target = TargetInteractive) =>
             files'[run.wpath] =
                 InteractiveWith(Configured(config, "components", LitComponents),
                                 Configured(config, "ui", LitUi))]_vars

\* C17 witness: in a project whose components.json sets utils to ~/utils, `add`
\* wrote sdk-section.tsx importing from ~/utils and the export wrote it
\* importing from @/lib/utils
C17_Witness ==
    /\ config.hasAliases
    /\ config.utils = Some(AliasTildeUtils)
    /\ FumadocsJson \in DOMAIN outFs.files
    /\ outFs.files[FumadocsJson].files[3].content = SectionWith(LitUtils)
    /\ \E p \in DOMAIN files : files[p] = SectionWith(AliasTildeUtils)


(***************************************************************************)
(* Claims about the order of the steps of applyRegistryItem.               *)
(***************************************************************************)
\* the run is one of applyRegistryItem, called for a catalog item
Applying == run.variant = "apply" /\ run.lookup = "found"

ManifestOf(r) == r.item[1].files

\* where the run is: the configuration first, then file after file, each
\* read exactly once and settled (created or skipped) before the next read,
\* the install after the last file and only in a run without error
StepsInSequence ==
    Applying =>
        LET n == Len(ManifestOf(run)) IN
        /\ run.pc = "config" =>
              run.idx = 0 /\ run.reads = 0 /\ run.out = <<>>
        /\ run.pc = "file" =>
              run.idx \in 1..n /\ run.reads = run.idx - 1
              /\ Len(run.out) = run.idx - 1
        /\ run.pc \in {"mkdir", "write"} =>
              run.idx \in 1..n /\ run.reads = run.idx
              /\ Len(run.out) = run.idx - 1
              /\ run.wpath = ResolveOne(run.componentsRoot, CurrentFile.target)
        /\ run.pc = "install" =>
              run.reads = n /\ Len(run.out) = n /\ run.error = "none"
        /\ \A k \in 1..Len(run.out) :
              run.out[k].path =
                  ResolveOne(run.componentsRoot, ManifestOf(run)[k].target)
        /\ run.pc # "exited" => run.spawns = <<>> /\ run.error = "none"
        /\ run.spawns # <<>> => Len(run.out) = n /\ run.error = "none"
        /\ run.error # "none" => run.pc = "exited" /\ run.spawns = <<>>

\* the step that fails writes nothing, and while the command has ended the
\* only changes to the project are the consumer's
FailureEndsTheCommand ==
    /\ (run'.error # "none" /\ run' # run) =>
            files' = files /\ dirs' = dirs
    /\ (run.pc = "exited" /\ runs' = runs) =>
            /\ run' = run
            /\ edits' = edits => (files' = files /\ dirs' = dirs)

\* C18: within one applyRegistryItem run the configuration is read before
\* any template, the files are processed in manifest order, each file's
\* read, rewrite and write-or-skip ending before the next file's read, and
\* after a failing step no later step of the command runs: no later file is
\* written and no dependency install is spawned.
C18_StepsInFixedSequence ==
    /\ []StepsInSequence
    /\ [][FailureEndsTheCommand]_vars

\* C18 witness: the second template of the item could not be read: the
\* first file was created before, nothing was written after and no install
\* was spawned.
C18_Witness ==
    /\ Applying
    /\ run.error = "ENOENT"
    /\ run.reads = 2
    /\ Len(run.out) = 1
    /\ run.out[1].kind = "Created"
    /\ run.spawns = <<>>
    /\ Len(ManifestOf(run)) > 2


(***************************************************************************)
(* Claims about the interpolation of the replacement specifiers.           *)
(***************************************************************************)
Placeholders == {PhComponents, PhUi, PhUtils}

HasPlaceholder(text) == \E ph \in Placeholders : Includes(text, ph)

\* text with every occurrence of pat, from position i on, replaced by the
\* characters of rep as they are
RECURSIVE LiteralReplaceFrom(_, _, _, _)
LiteralReplaceFrom(text, pat, rep, i) ==
    LET at == {j \in i..Len(text) : OccursAt(text, pat, j)} IN
    IF at = {} THEN SubSeq(text, i, Len(text))
    ELSE LET j == CHOOSE m \in at : \A o \in at : m <= o
         IN  SubSeq(text, i, j - 1) \o rep
                 \o LiteralReplaceFrom(text, pat, rep, j + Len(pat))

LiterallyInterpolated(template, aliases) ==
    LiteralReplaceFrom(
        LiteralReplaceFrom(
            LiteralReplaceFrom(template, PhComponents, aliases.componentsAlias, 1),
            PhUi, aliases.uiAlias, 1),
        PhUtils, aliases.utilsAlias, 1)

AliasesHoldNoPlaceholder(aliases) ==
    /\ ~HasPlaceholder(aliases.componentsAlias)
    /\ ~HasPlaceholder(aliases.uiAlias)
    /\ ~HasPlaceholder(aliases.utilsAlias)

\* C19: before the imports are rewritten every replacement specifier has
\* each of the three placeholder tokens replaced at every occurrence by the
\* alias value as literal text, so, for alias values that hold no
\* placeholder token, the rewritten content holds no placeholder token.
C19_PlaceholdersReplacedLiterally ==
    [][/\ (rwPc = "template" /\ rwPc' = "ready" /\ rwMapping.defined) =>
              \A k \in 1..Len(rwMapping.entries) :
                  rwMapping'.entries[k].to =
                      LiterallyInterpolated(rwMapping.entries[k].to,
                                            raResult.aliases)
       /\ (rwPc' = "done" /\ AliasesHoldNoPlaceholder(raResult.aliases)) =>
              ~HasPlaceholder(rwResult')]_vars


(***************************************************************************)
(* Claims about the catalog as state.                                      *)
(***************************************************************************)
\* C20: the registry catalog is immutable: after any sequence of commands
\* and of calls of listRegistryItems, findRegistryItem, applyRegistryItem
\* and exportRegistry it holds the same items, in the same order, with the
\* same ids, file manifests and dependencies as at process start.
C20_CatalogImmutable ==
    /\ items = CatalogItems
    /\ Len(items) = 2
    /\ items[1] = fumadocsSdkLayoutItem
    /\ items[2] = brandingLogoWithBadgeItem

\* C20 witness: an export has written its manifest and an `add` has
\* materialized a file of an item it found in the catalog, and the catalog
\* is as it was.
C20_Witness ==
    /\ exp.pc = "exited"
    /\ exp.error = "none"
    /\ RegistryJson \in DOMAIN outFs.files
    /\ run.pc = "exited"
    /\ run.lookup = "found"
    /\ run.out # <<>>
    /\ items = CatalogItems


(***************************************************************************)
(* Claims about `registry connect`.                                        *)
(***************************************************************************)
Connecting == run.command = "registry connect"

\* the top-level fields of components.json other than `registries`
OtherFields(cfg) ==
    [exists |-> cfg.exists, hasAliases |-> cfg.hasAliases,
     components |-> cfg.components, ui |-> cfg.ui, utils |-> cfg.utils]

RegistryNames(cfg) ==
    {cfg.registries.entries[k].name : k \in 1..Len(cfg.registries.entries)}

\* the values `registries` holds for a name (one at most)
UrlsOf(cfg, name) ==
    {cfg.registries.entries[k].url :
        k \in PropertyAt(cfg.registries.entries, name)}

\* C21: `registry connect` sets registries["@chris-lally"] in components.json
\* to the chosen URL and leaves every other top-level field and every other
\* entry of `registries` unchanged; when components.json is absent it fails
\* with the missing-configuration error and creates no file.
C21_ConnectSetsOnlyItsRegistry ==
    [][/\ (Connecting /\ run.pc = "store") =>
              /\ OtherFields(config') = OtherFields(config)
              /\ config'.registries.present
              /\ UrlsOf(config', ChrisLallyRegistry) = {run.url}
              /\ \A n \in (RegistryNames(config) \cup RegistryNames(config'))
                              \ {ChrisLallyRegistry} :
                     UrlsOf(config', n) = UrlsOf(config, n)
              /\ files' = files /\ dirs' = dirs
       /\ (Connecting /\ run.pc = "parse") =>
              config' = config /\ files' = files /\ dirs' = dirs
       /\ (runs' = runs + 1 /\ run'.command = "registry connect") =>
              /\ config' = config /\ files' = files /\ dirs' = dirs
              /\ ~config.exists =>
                     run'.pc = "exited" /\ run'.error = "missing-config"
              /\ config.exists => run'.error = "none"]_vars

\* C21 witness: a connect with no option ended in a project whose
\* components.json held aliases, another registry and an older URL: the
\* default URL is set, the other registry and the aliases are as before.
C21_Witness ==
    /\ Connecting
    /\ run.pc = "exited"
    /\ run.error = "none"
    /\ config.utils = Some(AliasTildeUtils)
    /\ UrlsOf(config, "@acme") = {AcmeUrl}
    /\ UrlsOf(config, ChrisLallyRegistry) = {DEFAULT_REGISTRY_URL}


(***************************************************************************)
(* Claims about concurrent calls of writeIfMissing.                        *)
(***************************************************************************)
\* the calls on `path` that returned "created", by their place in the log
CreatedAt(path) ==
    {k \in 1..Len(wimLog) :
        wimLog[k].path = path /\ wimLog[k].result = "created"}

LastOf(S) == CHOOSE k \in S : \A j \in S : j <= k

\* C22: two concurrent invocations that call writeIfMissing on the same
\* absent path can race: the existence check and the write are separate
\* steps, so a call that passed the check writes and reports "created"
\* whatever happened to the path since, and when both calls passed the
\* check both report "created" and the file holds the content of the later
\* write, not that of the first.
C22_CheckThenWriteCanRace ==
    /\ [][\A c \in Callers :
            (wim[c].pc = "write" /\ wim'[c].pc = "done") =>
                /\ wim'[c].result = "created"
                /\ files'[wim[c].path] = wim[c].content]_vars
    /\ [](\A path \in WimPaths :
            CreatedAt(path) # {} =>
                files[path] = wimLog[LastOf(CreatedAt(path))].content)

\* C22 witness: both calls on a path that was absent returned "created",
\* with different contents, and the file holds the later one's.
C22_Witness ==
    \E path \in WimPaths :
        /\ path \notin DOMAIN fs0.files
        /\ Cardinality(CreatedAt(path)) = 2
        /\ wim[1].path = path /\ wim[2].path = path
        /\ wim[1].result = "created" /\ wim[2].result = "created"
        /\ LET first == CHOOSE k \in CreatedAt(path) : \A j \in CreatedAt(path) : k <= j
               last == LastOf(CreatedAt(path))
           IN  /\ wimLog[first].content # wimLog[last].content
               /\ files[path] = wimLog[last].content


(***************************************************************************)
(* Claims about the names and titles of exported items.                    *)
(***************************************************************************)
\* 'My'
CapMy ==
    <<"M","y">>
\* 'Kit'
CapKit ==
    <<"K","i","t">>
\* 'fumadocs-sdk-layout'
NameFumadocs ==
    <<"f","u","m","a","d","o","c","s","-","s","d","k","-","l","a","y","o","u","t">>
\* 'Fumadocs Sdk Layout'
TitleFumadocs ==
    <<"F","u","m","a","d","o","c","s"," ","S","d","k"," ","L","a","y","o","u","t">>
\* 'branding-logo-with-badge'
NameBranding ==
    <<"b","r","a","n","d","i","n","g","-","l","o","g","o","-","w","i","t","h","-","b","a","d","g","e">>
\* 'Branding Logo With Badge'
TitleBranding ==
    <<"B","r","a","n","d","i","n","g"," ","L","o","g","o"," ","W","i","t","h"," ","B","a","d","g","e">>

\* a word with its first character in upper case
Capitalized(word) ==
    CASE word = TokMy -> CapMy
      [] word = TokKit -> CapKit
      [] word = Tok3d -> Tok3d

SlashToHyphen == [c \in IdSeparators |-> IF c = "/" THEN "-" ELSE c]
AllToSpace == [c \in IdSeparators |-> " "]

ExpectedName(shape) == IdText(shape, SlashToHyphen)
ExpectedTitle(shape) ==
    IdText([shape EXCEPT !.words =
               [k \in 1..Len(shape.words) |-> Capitalized(shape.words[k])]],
           AllToSpace)

\* what a per-item document and a manifest entry have in common
Naming(doc) ==
    [name |-> doc.name, title |-> doc.title, description |-> doc.description,
     dependencies |-> doc.dependencies]

\* C23: an exported item's name is its id with every "/" replaced by "-";
\* its title is that name with every "-" and "_" replaced by a space and the
\* first character of every word in upper case (fumadocs/sdk-layout gives
\* fumadocs-sdk-layout and Fumadocs Sdk Layout); the per-item document and
\* the manifest entry of an item carry the same name, title, description and
\* dependencies.
C23_NameAndTitleOfExportedItems ==
    /\ ft.pc = "done" =>
          /\ ft.result.name = ExpectedName(ft.segs)
          /\ ft.result.title = ExpectedTitle(ft.segs)
    /\ FumadocsJson \in DOMAIN outFs.files =>
          /\ outFs.files[FumadocsJson].name = NameFumadocs
          /\ outFs.files[FumadocsJson].title = TitleFumadocs
    /\ BrandingJson \in DOMAIN outFs.files =>
          /\ outFs.files[BrandingJson].name = NameBranding
          /\ outFs.files[BrandingJson].title = TitleBranding
    /\ RegistryJson \in DOMAIN outFs.files =>
          \A k \in 1..Len(outFs.files[RegistryJson].items) :
              LET entry == outFs.files[RegistryJson].items[k] IN
              /\ entry.name \o JsonExt \in DOMAIN outFs.files
              /\ Naming(entry) = Naming(outFs.files[entry.name \o JsonExt])
              /\ entry.name = slugForItem(items[k])
              /\ entry.description = items[k].description
              /\ entry.dependencies = items[k].dependencies

\* C23 witness: the names were computed for an id with "/", "-" and "_"
\* separators being there, and an export has written its manifest.
C23_Witness ==
    /\ ft.pc = "done"
    /\ Len(ft.segs.words) = 3
    /\ ft.segs.seps = <<"/", "_">>
    /\ RegistryJson \in DOMAIN outFs.files
    /\ Len(outFs.files[RegistryJson].items) = 2


(***************************************************************************)
(* Claims about `add` in the registry-connect variant.                     *)
(***************************************************************************)
\* components.json exists and holds a truthy registries["@chris-lally"]
HasTruthyRegistry(cfg) ==
    cfg.exists /\ \E u \in UrlsOf(cfg, ChrisLallyRegistry) : u # ""

\* an `add` of the registry-connect variant for an item of the catalog ends
\* in this step
ConnectAddEnds ==
    /\ run.pc # "exited"
    /\ run'.pc = "exited"
    /\ run'.command = "add"
    /\ run'.variant = "connect"
    /\ run'.lookup = "found"

\* the reference of an item of the catalog: '@chris-lally/' and the id with
\* "/" replaced by "-"
ExpectedRef(item) ==
    CASE item.id = IdFumadocs -> RegistryRefPrefix \o NameFumadocs
      [] item.id = IdBranding -> RegistryRefPrefix \o NameBranding

\* C24: in the registry-connect variant `add` of a known item invokes the
\* copy tool only when components.json exists and has a truthy
\* registries["@chris-lally"], and otherwise sets exit code 1 without
\* spawning anything; a successful `registry connect` leaves such a
\* components.json, so that, components.json not being changed afterwards, a
\* following `add` of a known item invokes the copy tool with the reference
\* @chris-lally/<id with "/" replaced by "-">.  (run.doc is the document the
\* last connect wrote.)
C24_AddSpawnsOnlyWhenConnected ==
    [][/\ ConnectAddEnds =>
              IF HasTruthyRegistry(config)
              THEN /\ Len(run'.spawns) = 1
                   /\ run'.spawns[1].tool = "shadcn add"
                   /\ run'.spawns[1].ref = ExpectedRef(run'.item[1])
              ELSE /\ run'.spawns = <<>>
                   /\ run'.exitCode = 1
       /\ (Connecting /\ run.pc = "store") => HasTruthyRegistry(config')
       /\ (Connecting /\ run.pc = "exited" /\ run.error = "none"
             /\ config = run.doc
             /\ run'.command = "add" /\ run'.lookup = "found") =>
              (HasTruthyRegistry(config) /\ run'.pc = "registries")]_vars

\* C24 witness: components.json holds the default URL, which only a connect
\* writes, and the `add` of fumadocs/sdk-layout that followed has invoked the
\* copy tool.
C24_Witness ==
    /\ UrlsOf(config, ChrisLallyRegistry) = {DEFAULT_REGISTRY_URL}
    /\ run.command = "add"
    /\ run.variant = "connect"
    /\ run.pc = "exited"
    /\ Len(run.spawns) = 1
    /\ run.spawns[1].ref = RegistryRefPrefix \o NameFumadocs


(***************************************************************************)
(* Claims about what a failed export leaves in outDir.                     *)
(***************************************************************************)
\* the catalog items a source of which is missing under the template root
ItemsWithMissingSource ==
    {i \in 1..Len(CatalogItems) :
        \E k \in 1..Len(CatalogItems[i].files) :
            templates[CatalogItems[i].files[k].source] = None}

FirstOf(S) == CHOOSE i \in S : \A j \in S : i <= j

\* C25: when exportRegistry fails because a source of the k-th catalog item
\* is missing, the per-item JSON files it has written are exactly those of
\* the items that precede the k-th in catalog order: the JSON of the failing
\* item and those of all later items are not written (what outDir held
\* under their names before stays as it was).
C25_FailedExportWroteEarlierItemsOnly ==
    /\ []((exp.pc = "exited" /\ exp.error = "missing-source") =>
            LET k == FirstOf(ItemsWithMissingSource) IN
            /\ ItemsWithMissingSource # {}
            /\ exp.written = [i \in 1..(k - 1) |-> ItemJson(CatalogItems[i])]
            /\ \A i \in 1..(k - 1) :
                  /\ ItemJson(CatalogItems[i]) \in DOMAIN outFs.files
                  /\ outFs.files[ItemJson(CatalogItems[i])].name =
                         slugForItem(CatalogItems[i]))
    /\ [][ItemsWithMissingSource # {} =>
            \A i \in FirstOf(ItemsWithMissingSource)..Len(CatalogItems) :
                LET name == ItemJson(CatalogItems[i]) IN
                /\ (name \in DOMAIN outFs'.files) = (name \in DOMAIN outFs.files)
                /\ name \in DOMAIN outFs.files =>
                       outFs'.files[name] = outFs.files[name]]_vars

\* C25 witness: the export failed at the second item of the catalog, the
\* source of its one file missing; the JSON of the first item is written,
\* that of the second is not.
C25_Witness ==
    /\ exp.pc = "exited"
    /\ exp.error = "missing-source"
    /\ templates[SourceLogo] = None
    /\ exp.written = <<FumadocsJson>>
    /\ Len(outFs.files[FumadocsJson].files) = 5
    /\ BrandingJson \notin DOMAIN outFs.files


(***************************************************************************)
(* Claims about repeated exports.                                          *)
(***************************************************************************)
\* the files of an item as readTemplateContent returns them, all at once
FilesOfItem(item) ==
    [k \in 1..Len(item.files) |->
        ExportedFile(item, item.files[k], templates[item.files[k].source][1])]

\* what one export over the catalog and the templates writes: the name and
\* the document of each file
SingleExport ==
    LET docs == [i \in 1..Len(CatalogItems) |->
                    ExportedItem(CatalogItems[i], FilesOfItem(CatalogItems[i]))]
        entries == [i \in 1..Len(CatalogItems) |->
                       ManifestEntry(CatalogItems[i], FilesOfItem(CatalogItems[i]))]
    IN  [name \in {FumadocsJson, BrandingJson, RegistryJson} |->
            CASE name = FumadocsJson -> docs[1]
              [] name = BrandingJson -> docs[2]
              [] name = RegistryJson -> Manifest(entries)]

\* C26: export overwrites: every <slug>.json and registry.json that is in
\* outDir is replaced, so after any sequence of successful exports into the
\* same outDir, over the same catalog and templates, these files are what a
\* single export into an empty outDir produces, whatever outDir held before.
C26_ReExportEqualsSingleExport ==
    (exp.pc = "exited" /\ exp.error = "none") =>
        /\ outFs.dir
        /\ \A name \in DOMAIN SingleExport :
              /\ name \in DOMAIN outFs.files
              /\ outFs.files[name] = SingleExport[name]

\* C26 witness: the second export into an outDir that held an older
\* registry.json and an older document of an item has ended.
C26_Witness ==
    /\ exp.pc = "exited"
    /\ exp.error = "none"
    /\ exp.n = 2
    /\ outFs.files[FumadocsJson] # StaleItemDoc
    /\ outFs.files[RegistryJson] # StaleManifest
    /\ Len(outFs.files[FumadocsJson].files) = 5


(***************************************************************************)
(* Claims about the dependency install of applyRegistryItem.               *)
(***************************************************************************)
\* the dependencies the items of the catalog declare
DeclaredDependencies(item) ==
    CASE item.id = IdFumadocs -> <<"fumadocs-ui", "json5">>
      [] item.id = IdBranding -> <<>>

\* C27: in applyRegistryItem the dependency install is spawned only after
\* every file of the item has been created or skipped, only when the item
\* declares at least one dependency, and whether or not any file was
\* created: a run that got through its files ends with one install for an
\* item with dependencies, so that repeating `add` for a materialized item
\* spawns the install again each time.
C27_InstallAfterFilesWheneverDeclared ==
    /\ [](Applying =>
            /\ run.pc # "exited" => run.spawns = <<>>
            /\ (run.pc = "exited" /\ run.error = "none") =>
                  /\ Len(run.out) = Len(ManifestOf(run))
                  /\ \A k \in 1..Len(run.out) :
                        run.out[k].kind \in {"Created", "Skipped"}
                  /\ IF DeclaredDependencies(run.item[1]) = <<>>
                     THEN run.spawns = <<>>
                     ELSE /\ Len(run.spawns) = 1
                          /\ run.spawns[1].tool = "install"
                          /\ run.spawns[1].deps = DeclaredDependencies(run.item[1]))
    /\ [][(Applying /\ run'.spawns # run.spawns /\ runs' = runs) =>
            /\ Len(run.out) = Len(ManifestOf(run))
            /\ run'.out = run.out
            /\ files' = files]_vars

\* C27 witness: in a project that had none of the files, the second `add`
\* of fumadocs/sdk-layout skipped every file and spawned the install.
C27_Witness ==
    /\ fs0.files = EmptyFiles
    /\ runs = 2
    /\ Applying
    /\ run.item[1].id = IdFumadocs
    /\ run.pc = "exited"
    /\ Len(run.out) = 5
    /\ \A k \in 1..Len(run.out) : run.out[k].kind = "Skipped"
    /\ Len(run.spawns) = 1


(***************************************************************************)
(* Claims about repeated `registry connect` commands.                      *)
(***************************************************************************)
\* position k of the options holds `--url` read as the option: it has a
\* truthy value after it and is not itself the value of the option before
RECURSIVE IsUrlOption(_, _)
IsUrlOption(args, k) ==
    /\ k \in 1..(Len(args) - 1)
    /\ args[k] = "--url"
    /\ args[k + 1] # ""
    /\ ~(k > 1 /\ IsUrlOption(args, k - 1))

\* the URL a command line asks for: the value of its last `--url` option
\* that has a value, else the default URL
ChosenUrl(args) ==
    LET at == {k \in 1..Len(args) : IsUrlOption(args, k)} IN
    IF at = {} THEN DEFAULT_REGISTRY_URL
    ELSE args[(CHOOSE k \in at : \A j \in at : j <= k) + 1]

\* C28: `registry connect` is last-writer-wins and idempotent: when a
\* connect has succeeded registries["@chris-lally"] is the URL of that
\* connect (the `--url` value when given with a value, else the default
\* URL), whatever earlier connects wrote, and a connect with the URL that
\* components.json holds already leaves its content as it is.
C28_ConnectLastWinsAndIdempotent ==
    [][(Connecting /\ run.pc = "store") =>
          /\ run.url = ChosenUrl(run.registryArgs)
          /\ UrlsOf(config', ChrisLallyRegistry) = {ChosenUrl(run.registryArgs)}
          /\ Cardinality(PropertyAt(config'.registries.entries,
                                    ChrisLallyRegistry)) = 1
          /\ UrlsOf(config, ChrisLallyRegistry) = {run.url} => config' = config]_vars

\* C28 witness: a connect with `--url` and a value ended in a project whose
\* components.json held the default URL, which only an earlier connect
\* writes: the value of the later connect is there.
C28_Witness ==
    /\ Connecting
    /\ run.pc = "exited"
    /\ run.error = "none"
    /\ run.registryArgs = <<"--url", MirrorUrl>>
    /\ UrlsOf(run.raw, ChrisLallyRegistry) = {DEFAULT_REGISTRY_URL}
    /\ UrlsOf(config, ChrisLallyRegistry) = {MirrorUrl}


(***************************************************************************)
(* Claims about the argument of `add`.                                     *)
(***************************************************************************)
\* an `add` command starts in this step
AddStarts == runs' = runs + 1 /\ run'.command = "add"

\* the command that starts is rejected for its format: exit code 1, nothing
\* looked up
RejectedAsInvalidFormat ==
    /\ run'.lookup = "invalid-format"
    /\ run'.item = <<>>
    /\ run'.pc = "exited"
    /\ run'.exitCode = 1

\* C29: `add` looks up the first two "/"-separated segments of its argument
\* only: ns/name/extra... is treated as ns/name is, the segments after the
\* name being ignored and not rejected as an invalid item format, while an
\* argument with an empty namespace or an empty name is rejected as an
\* invalid format.
C29_AddLooksUpFirstTwoSegments ==
    /\ [][AddStarts =>
            /\ run'.argument \in {Some(IdBranding), Some(IdExtra)} =>
                  /\ run'.lookup = "found"
                  /\ run'.item = <<brandingLogoWithBadgeItem>>
            /\ run'.argument \in {Some(IdFumadocs), Some(IdTrailingSlash)} =>
                  /\ run'.lookup = "found"
                  /\ run'.item = <<fumadocsSdkLayoutItem>>
            /\ run'.argument \in {Some(IdUnknownItem), Some(IdExtraUnknown)} =>
                  /\ run'.lookup = "unknown-item"
                  /\ run'.exitCode = 1
            /\ run'.argument \in {Some(ArgNoNamespace), Some(ArgNoName),
                                  Some(NsBranding)} =>
                  RejectedAsInvalidFormat]_vars
    /\ []((run.argument = Some(IdExtra) /\ run.pc = "exited"
             /\ run.error = "none" /\ run.exitCode = 0) =>
            IF run.variant = "apply"
            THEN /\ Len(run.out) = 1
                 /\ run.out[1].path = ResolveOne(run.componentsRoot, TargetLogo)
            ELSE /\ Len(run.spawns) = 1
                 /\ run.spawns[1].ref = RegistryRefPrefix \o NameBranding)

\* C29 witness: `add branding/logo-with-badge/extra` of the apply variant
\* has created the file of branding/logo-with-badge.
C29_Witness ==
    /\ run.argument = Some(IdExtra)
    /\ run.variant = "apply"
    /\ run.pc = "exited"
    /\ Len(run.out) = 1
    /\ run.out[1].kind = "Created"
    /\ run.out[1].path \in DOMAIN files


(***************************************************************************)
(* Claims about the quotes and the order of the import rewriting.          *)
(***************************************************************************)
\* the positions of text at which `from`, a quote q, spec and q again stand
ImportsQuoted(text, q, spec) ==
    {i \in 1..Len(text) : OccursAt(text, FromKw \o <<q>> \o spec \o <<q>>, i)}

\* the specifiers the entries from k on write
WrittenFrom(entries, k) == {entries[j].to : j \in k..Len(entries)}

\* C30: every import rewritten by applyImportReplacements is emitted with
\* single quotes, whichever quotes the specifier had, and the entries are
\* applied one after another, in mapping order, to the running text, a later
\* entry seeing the output of the earlier ones: no double-quoted import of a
\* replacement comes into being, every import of a key is gone from the
\* result unless that entry or a later one writes it, and a double-quoted
\* import of the first key of a chain ends as the single-quoted import of the
\* last replacement.
C30_SingleQuotesInMappingOrder ==
    (rwPc = "done" /\ rwMapping.defined) =>
        LET entries == rwMapping.entries IN
        /\ \A k \in 1..Len(entries) :
              /\ Cardinality(ImportsQuoted(rwResult, "\"", entries[k].to))
                    <= Cardinality(ImportsQuoted(rwContent, "\"", entries[k].to))
              /\ entries[k].from \notin WrittenFrom(entries, k) =>
                    ~HasImportOf(rwResult, entries[k].from)
        /\ (rwContent = SegImportCnDq /\ Len(entries) = 2
              /\ entries[1] = Entry(KeyCn, KeyCombobox)
              /\ entries[2] = Entry(KeyCombobox, ToTildeCombobox)) =>
                 /\ ImportsQuoted(rwResult, "'", ToTildeCombobox) # {}
                 /\ Len(rwResult) = Len(rwContent) - Len(KeyCn) + Len(ToTildeCombobox)
        /\ (rwContent = SegImportCnDq /\ entries = <<Entry(KeyCn, DefaultUtilsAlias)>>) =>
                 rwResult = SegImportUtils

\* C30 witness: a double-quoted import of the first key of a chain of two
\* entries was rewritten to the single-quoted import of the second
\* replacement.
C30_Witness ==
    /\ rwPc = "done"
    /\ rwContent = SegImportCnDq
    /\ rwMapping = MappingOf(<<Entry(KeyCn, KeyCombobox),
                               Entry(KeyCombobox, ToTildeCombobox)>>)
    /\ ImportsQuoted(rwResult, "'", ToTildeCombobox) # {}
    /\ ImportsQuoted(rwResult, "\"", KeyCn) = {}

=============================================================================
